---- MODULE Spec2Model ----
(***************************************************************************)
(* Authentication and session lifecycle of backend/services/auth_service.py *)
(* (AuthService, PasswordUtils, JWTUtils) and the session endpoints of      *)
(* backend/api/auth_routes.py.                                              *)
(*                                                                          *)
(* Tables are sequences: a row's primary key is its index, rows are never   *)
(* deleted.  Time is a discrete clock `now`; every handler reads utc_now()  *)
(* as `now`.  Durations are counted in clock ticks.                         *)
(* Random values (uuid4, secrets.token_urlsafe) are fresh: the n-th token   *)
(* pair carries refresh token n and jti n, the k-th reset token is k.       *)
(* Columns that no handler ever reads (last_login_at, last_login_ip,        *)
(* updated_at, device_info, ip_address, full_name) are not represented.     *)
(*                                                                          *)
(* A handler is an operator from the committed state and the call's         *)
(* arguments to its outcome: the value returned (code, error, n) and the    *)
(* tables as the call leaves them.  Commit(out) is the step that call       *)
(* makes.                                                                   *)
(***************************************************************************)
EXTENDS Integers, Sequences, FiniteSets, TLC

\* ---------------------------------------------------------------- bounds
\* Spec: every call, from the empty database
MaxSessions == 2
MaxResetTokens == 1
MaxAudit == 4
MaxNow == 1
MaxFailed == 1
\* SpecRotation: login, refresh and logout of one user
RotSessions == 2
RotNow == 3
\* SpecReset: the password-reset flow of two users
RstSessions == 3
RstTokens == 1
RstNow == 1
RstFailed == 1
\* SpecLockout: the lockout state machine of one user
LockSessions == 3
LockNow == 4
LockFailed == 6
\* SpecSessions: the sessions of two users
SesSessions == 3
SesNow == 1
\* SpecRefreshRace: refresh calls in flight at once
NumRefreshProcs == 2
RaceSessions == 4
RaceNow == 1
\* SpecLoginRace: logins in flight at once
NumLoginProcs == 5
LoginRaceNow == 1
\* SpecResetRace: password-reset requests in flight at once
NumResetProcs == 2
ResetRaceNow == 2
\* SpecTenant: one user whose organization is switched off and on
TenSessions == 2
TenTokens == 1
TenNow == 1
TenFailed == 5
\* SpecResetFlow: one user who forgets, resets and logs in
FlowSessions == 2
FlowTokens == 1
FlowNow == 1
FlowFailed == 2
\* SpecSignupRace: signups in flight at once
NumSignupProcs == 2
SignupRaceSessions == 3
\* SpecChange: one user who logs in and changes the password
ChgSessions == 3
ChgAudit == 4
ChgNow == 1
\* SpecIssue: the token pairs signup, login and refresh hand out
IssSessions == 3
IssNow == 1
\* SpecLockedReset: one user who is locked out and resets the password
LrSessions == 2
LrTokens == 1
LrNow == 1
LrFailed == 5
\* SpecUseRace: reset_password calls in flight at once
NumUseProcs == 2
UseTokens == 1
UseNow == 1

\* ------------------------------------------------------ program constants
MIN_LENGTH == 8
MAX_LENGTH == 128
LOCK_THRESHOLD == 5
\* timedelta(minutes=15), in clock ticks
LOCK_TICKS == 2
\* timedelta(hours=1), in clock ticks
RESET_TICKS == 1
\* JWT_ACCESS_TOKEN_EXPIRES, in clock ticks
ACCESS_TICKS == 1
\* JWT_REFRESH_TOKEN_EXPIRES, in clock ticks
REFRESH_TICKS == 2

\* None
NULL == -1

VARIABLES
    tenants,        \* table tenants
    users,          \* table users
    sessions,       \* table user_sessions
    reset_tokens,   \* table password_reset_tokens
    audit,          \* table audit_logs
    now,            \* utc_now()
    issued,         \* token pairs handed to callers, issued[n] belongs to sessions[n]
    rotated,        \* refresh tokens for which refresh_tokens has returned success
    consumed,       \* reset tokens for which reset_password has returned success
    procs           \* requests in flight (concurrent specifications only)

vars == <<tenants, users, sessions, reset_tokens, audit, now, issued,
          rotated, consumed, procs>>

db == <<tenants, users, sessions, reset_tokens, audit>>

\* ------------------------------------------------------------ input sets
\* str.lower().strip()
lower(e) == IF e = "A@X.com" THEN "a@x.com" ELSE e

\* what the regular expressions of validate_password_strength see
PasswordShape(p) ==
    CASE p = "Abcd1234"   -> [len |-> 8,  upper |-> TRUE,  lower |-> TRUE, digit |-> TRUE,  common |-> FALSE]
      [] p = "NewPass123" -> [len |-> 10, upper |-> TRUE,  lower |-> TRUE, digit |-> TRUE,  common |-> FALSE]
      [] OTHER            -> [len |-> 5,  upper |-> FALSE, lower |-> TRUE, digit |-> FALSE, common |-> FALSE]

\* PasswordUtils.validate_password_strength: the list of violated rules
validate_password_strength(p) ==
    LET s == PasswordShape(p) IN
      (IF s.len < MIN_LENGTH THEN {"min_length"} ELSE {})
      \cup (IF s.len > MAX_LENGTH THEN {"max_length"} ELSE {})
      \cup (IF ~s.upper THEN {"uppercase"} ELSE {})
      \cup (IF ~s.lower THEN {"lowercase"} ELSE {})
      \cup (IF ~s.digit THEN {"digit"} ELSE {})
      \cup (IF s.common THEN {"common"} ELSE {})

\* PasswordUtils.hash_password (bcrypt)
hash_password(p) == [bcrypt |-> p]

\* PasswordUtils.verify_password (bcrypt.checkpw)
verify_password(p, h) == h.bcrypt = p

\* AuthService._validate_email
validate_email(e) == e \in {"a@x.com", "b@x.com", "c@x.com"}

\* JWTUtils.hash_refresh_token and the sha256 of the reset flow
hash_refresh_token(t) == [sha256 |-> t]

\* ----------------------------------------------------------- table lookups
Ids(table) == DOMAIN table

\* first row of a table satisfying a filter, 0 when there is none
First(S) == IF S = {} THEN 0 ELSE CHOOSE i \in S : \A j \in S : i <= j

\* db.query(User).filter(User.email == email, User.is_active == True).first()
FindActiveUser(e) ==
    First({u \in Ids(users) : users[u].email = e /\ users[u].is_active})

\* the slug text of an organization name: lower, non-alphanumerics to "-"
Slugify(name) == IF name = "Acme" THEN <<"acme">> ELSE <<"acme", 1>>

RECURSIVE UniqueSlug(_, _, _)
UniqueSlug(base, slug, counter) ==
    IF \E t \in Ids(tenants) : tenants[t].slug = slug
    THEN UniqueSlug(base, Append(base, counter), counter + 1)
    ELSE slug

\* AuthService._generate_tenant_slug
generate_tenant_slug(name) == UniqueSlug(Slugify(name), Slugify(name), 1)

\* AuthService._log_action
log_action(log, action, uid) == Append(log, [action |-> action, user_id |-> uid])

\* JWTUtils.create_access_token
create_access_token(uid, tid, n) ==
    [sub |-> uid, tenant_id |-> tid, jti |-> n,
     iat |-> now, exp |-> now + ACCESS_TICKS, type |-> "access", signed |-> TRUE]

\* the refresh token derived from the user instead of drawn at random
NewSession_TokenPerUser(uid, n) ==
    [user_id |-> uid, refresh_token_hash |-> hash_refresh_token(uid),
     access_token_jti |-> n, expires_at |-> now + REFRESH_TICKS,
     is_revoked |-> FALSE, revoked_at |-> NULL, revoked_reason |-> "",
     last_used_at |-> now]

\* the session row saved under a jti of its own, not the token's
NewSession_OtherJti(uid, n) ==
    [user_id |-> uid, refresh_token_hash |-> hash_refresh_token(n),
     access_token_jti |-> 0, expires_at |-> now + REFRESH_TICKS,
     is_revoked |-> FALSE, revoked_at |-> NULL, revoked_reason |-> "",
     last_used_at |-> now]

\* the UserSession row of AuthService._create_token_pair
NewSession(uid, n) ==
    [user_id |-> uid, refresh_token_hash |-> hash_refresh_token(n),
     access_token_jti |-> n, expires_at |-> now + REFRESH_TICKS,
     is_revoked |-> FALSE, revoked_at |-> NULL, revoked_reason |-> "",
     last_used_at |-> now]

\* the TokenPair of AuthService._create_token_pair
NewTokenPair(uid, tid, n) ==
    [access_token |-> create_access_token(uid, tid, n), refresh_token |-> n]

\* the outcome of a call that returns `code` and changes nothing
Return(code) ==
    [code |-> code, error |-> <<>>, n |-> 0, tenants |-> tenants, users |-> users,
     sessions |-> sessions, reset_tokens |-> reset_tokens, audit |-> audit,
     issued |-> issued, rotated |-> rotated, consumed |-> consumed]

\* db.commit(): the rows of outcome `out` become the committed state
Write(out) ==
    /\ tenants' = out.tenants
    /\ users' = out.users
    /\ sessions' = out.sessions
    /\ reset_tokens' = out.reset_tokens
    /\ audit' = out.audit
    /\ issued' = out.issued
    /\ rotated' = out.rotated
    /\ consumed' = out.consumed

\* the step of a call with outcome `out` that runs without interleaving
Commit(out) == Write(out) /\ UNCHANGED <<now, procs>>

\* the UPDATE the ORM flushes for a row it loaded as `loaded` and the call
\* changed to `new`: only the attributes the call changed are written over
\* the committed row `cur`
WriteBack(cur, loaded, new) ==
    [f \in DOMAIN cur |-> IF new[f] # loaded[f] THEN new[f] ELSE cur[f]]

NoProcs == [p \in {} |-> 0]

\* ------------------------------------------------------------------- Init
\* the empty database
Init ==
    /\ tenants = <<>>
    /\ users = <<>>
    /\ sessions = <<>>
    /\ reset_tokens = <<>>
    /\ audit = <<>>
    /\ now = 0
    /\ issued = <<>>
    /\ rotated = {}
    /\ consumed = {}
    /\ procs = NoProcs

\* ----------------------------------------------------------------- signup
\* signup: the Tenant row (lines 296-302)
NewTenantWithSlug(org, slug) == [name |-> org, slug |-> slug, is_active |-> TRUE]

\* signup: the Tenant row with the slug generated for it (lines 288-302)
NewTenant(org) == NewTenantWithSlug(org, generate_tenant_slug(org))

\* the User row with the default role instead of UserRole.ADMIN
NewUser_Member(tid, e, password) ==
    [tenant_id |-> tid, email |-> e, password_hash |-> hash_password(password),
     role |-> "member", is_active |-> TRUE, failed_login_attempts |-> 0,
     locked_until |-> NULL]

\* signup: the User row (lines 307-314)
NewUser(tid, e, password) ==
    [tenant_id |-> tid, email |-> e, password_hash |-> hash_password(password),
     role |-> "admin", is_active |-> TRUE, failed_login_attempts |-> 0,
     locked_until |-> NULL]

\* signup from the Tenant row to the commit (lines 296-342): the rows the
\* transaction inserts, `tenant` being the row built after the slug query
SignupLoaded(e, password, tenant) ==
    LET tid == Len(tenants) + 1
        uid == Len(users) + 1
        n == Len(sessions) + 1
    IN
    [Return("OK") EXCEPT
        !.n = n,
        !.tenants = Append(tenants, tenant),
        !.users = Append(users, NewUser(tid, e, password)),
        !.sessions = Append(sessions, NewSession(uid, n)),
        !.issued = Append(issued, NewTokenPair(uid, tid, n)),
        !.audit = log_action(audit, "user.signup", uid)]

\* AuthService.signup
signup(email, password, org) ==
    LET e == lower(email) IN
    IF ~validate_email(e) THEN Return("INVALID_EMAIL")
    ELSE IF validate_password_strength(password) # {} THEN Return("WEAK_PASSWORD")
    ELSE IF FindActiveUser(e) # 0 THEN Return("EMAIL_EXISTS")
    ELSE SignupLoaded(e, password, NewTenant(org))

\* ------------------------------------------------------------------ login
\* the comparison turned around
IsLocked_Past(user) == user.locked_until # NULL /\ user.locked_until < now

\* the lock still holding at the instant it runs out
IsLocked_AtExpiry(user) == user.locked_until # NULL /\ user.locked_until >= now

\* login: the lock check (line 385)
IsLocked(user) == user.locked_until # NULL /\ user.locked_until > now

\* the threshold compared with > instead of >=
FailedAttempt_OffByOne(user) ==
    [user EXCEPT !.failed_login_attempts = @ + 1,
                 !.locked_until = IF user.failed_login_attempts + 1 > LOCK_THRESHOLD
                                  THEN now + LOCK_TICKS ELSE @]

\* login: the failed-verification branch (lines 396-400)
FailedAttempt(user) ==
    [user EXCEPT !.failed_login_attempts = @ + 1,
                 !.locked_until = IF user.failed_login_attempts + 1 >= LOCK_THRESHOLD
                                  THEN now + LOCK_TICKS ELSE @]

\* the counter reset without the lock
ResetLockout_KeepsLock(user) == [user EXCEPT !.failed_login_attempts = 0]

\* login: the success branch (lines 429-430)
ResetLockout(user) ==
    [user EXCEPT !.failed_login_attempts = 0, !.locked_until = NULL]

\* the call that locks the account reporting the lock
FailedLoginCode_LockedOnFifth(user) ==
    IF user.failed_login_attempts >= LOCK_THRESHOLD
    THEN "ACCOUNT_LOCKED" ELSE "INVALID_CREDENTIALS"

\* login: the error code of the failed-verification branch (lines 413-417);
\* `user` is the row after the attempt was counted
FailedLoginCode(user) == "INVALID_CREDENTIALS"

\* the failed-verification branch telling what failed
FailedLoginError_WrongPassword == <<"Wrong password">>

\* login: the message of the failed-verification branch (line 415)
FailedLoginError == <<"Invalid email or password">>

\* login after the user lookup (lines 376-455): `user` is the row the lookup
\* loaded as user `uid`, or uid = 0 when it found none
LoginLoaded(uid, user, password) ==
    LET n == Len(sessions) + 1 IN
    IF uid = 0
    THEN [Return("INVALID_CREDENTIALS") EXCEPT !.error = <<"Invalid email or password">>]
    ELSE IF IsLocked(user)
    THEN [Return("ACCOUNT_LOCKED") EXCEPT
            !.error = <<"Account is locked. Try again in minutes", user.locked_until - now>>]
    ELSE IF ~verify_password(password, user.password_hash)
    THEN [Return(FailedLoginCode(FailedAttempt(user))) EXCEPT
            !.error = FailedLoginError,
            !.users = [users EXCEPT ![uid] = WriteBack(@, user, FailedAttempt(user))],
            !.audit = IF FailedAttempt(user).failed_login_attempts >= LOCK_THRESHOLD
                      THEN log_action(audit, "user.locked", uid)
                      ELSE audit]
    ELSE IF ~tenants[user.tenant_id].is_active
    THEN [Return("TENANT_INACTIVE") EXCEPT !.error = <<"Organization has been deactivated">>]
    ELSE [Return("OK") EXCEPT
            !.n = n,
            !.users = [users EXCEPT ![uid] = WriteBack(@, user, ResetLockout(user))],
            !.sessions = Append(sessions, NewSession(uid, n)),
            !.issued = Append(issued, NewTokenPair(uid, user.tenant_id, n)),
            !.audit = log_action(audit, "user.login", uid)]

\* the row a lookup that returned `id` loaded from `table`
Loaded(table, id) == IF id = 0 THEN NULL ELSE table[id]

\* AuthService.login
login(email, password) ==
    LET uid == FindActiveUser(lower(email)) IN
    LoginLoaded(uid, Loaded(users, uid), password)

\* ---------------------------------------------------------- access tokens
\* a token that was not signed with JWT_SECRET_KEY
ForgedToken ==
    [sub |-> 1, tenant_id |-> 1, jti |-> 0, iat |-> 0, exp |-> 100,
     type |-> "access", signed |-> FALSE]

\* a token signed with JWT_SECRET_KEY whose type marker is not "access"
WrongTypeToken ==
    [sub |-> 1, tenant_id |-> 1, jti |-> 1, iat |-> 0, exp |-> 100,
     type |-> "refresh", signed |-> TRUE]

\* the access tokens a caller can present
AccessInputs == {issued[k].access_token : k \in Ids(issued)} \cup {ForgedToken}

\* a request without a bearer token (get_token_from_header returns None)
NoToken ==
    [sub |-> 0, tenant_id |-> 0, jti |-> 0, iat |-> 0, exp |-> 0,
     type |-> "", signed |-> FALSE]

\* what a caller can send to POST /logout
LogoutInputs == AccessInputs \cup {WrongTypeToken, NoToken}

\* the decoding without the check of the type marker
decode_access_token_AnyType(token) ==
    IF ~token.signed THEN "INVALID_TOKEN"
    ELSE IF token.exp <= now THEN "TOKEN_EXPIRED"
    ELSE "OK"

\* JWTUtils.decode_access_token: signature, then expiry, then the type marker
decode_access_token(token) ==
    IF ~token.signed THEN "INVALID_TOKEN"
    ELSE IF token.exp <= now THEN "TOKEN_EXPIRED"
    ELSE IF token.type # "access" THEN "INVALID_TOKEN_TYPE"
    ELSE "OK"

\* validate_access_token: the session lookup by user id and jti (lines 647-650)
FindSessionByJti(table, uid, jti) ==
    First({i \in Ids(table) : table[i].user_id = uid
                              /\ table[i].access_token_jti = jti})

\* the token decoded and the session not looked up
Validated_DecodeOnly(table, token) == decode_access_token(token)

\* validate_access_token against the user_sessions rows `table` (lines
\* 640-655): "OK" stands for the returned payload
Validated(table, token) ==
    LET sid == FindSessionByJti(table, token.sub, token.jti) IN
    IF decode_access_token(token) # "OK" THEN decode_access_token(token)
    ELSE IF sid # 0 /\ table[sid].is_revoked THEN "TOKEN_REVOKED"
    ELSE "OK"

\* AuthService.validate_access_token
validate_access_token(token) == Return(Validated(sessions, token))

\* require_auth, the decorator of the protected endpoints (lines 1008-1032):
\* "OK" stands for the call of the decorated handler
require_auth(token) ==
    IF token = NoToken THEN "MISSING_TOKEN" ELSE decode_access_token(token)

\* GET /me behind require_auth (auth_routes.py lines 360-400)
current_user_endpoint(token) ==
    IF require_auth(token) # "OK" THEN Return("401")
    ELSE IF token.sub \notin Ids(users) THEN Return("404")
    ELSE Return("200")

\* ---------------------------------------------------------------- refresh
\* the lookup without the is_revoked filter
FindSessionByRefresh_AnySession(h) ==
    First({i \in Ids(sessions) : sessions[i].refresh_token_hash = h})

\* refresh_tokens: the session lookup (lines 484-487)
FindSessionByRefresh(h) ==
    First({i \in Ids(sessions) : sessions[i].refresh_token_hash = h
                                 /\ ~sessions[i].is_revoked})

\* the reason recorded without the flag
ExpireSession_ReasonOnly(s) == [s EXCEPT !.revoked_reason = "expired"]

\* refresh_tokens: the expired branch (lines 498-499)
ExpireSession(s) == [s EXCEPT !.is_revoked = TRUE, !.revoked_reason = "expired"]

\* the rotation recorded without the flag
RotateOld_NoRevoke(s) ==
    [s EXCEPT !.revoked_at = now, !.revoked_reason = "rotated", !.last_used_at = now]

\* the rotation renewing the expiry of the session it revokes
RotateOld_Renews(s) ==
    [s EXCEPT !.is_revoked = TRUE, !.revoked_at = now, !.revoked_reason = "rotated",
              !.last_used_at = now, !.expires_at = now + REFRESH_TICKS]

\* refresh_tokens: token rotation (lines 525-527 and 533)
RotateOld(s) ==
    [s EXCEPT !.is_revoked = TRUE, !.revoked_at = now, !.revoked_reason = "rotated",
              !.last_used_at = now]

\* refresh_tokens after the session lookup (lines 489-541): `session` is the
\* row the lookup loaded as session `sid`, or sid = 0 when it found none
RefreshLoaded(sid, session, refresh_token) ==
    LET uid == session.user_id
        n == Len(sessions) + 1
    IN
    IF sid = 0 THEN Return("INVALID_REFRESH_TOKEN")
    ELSE IF session.expires_at < now
    THEN [Return("REFRESH_TOKEN_EXPIRED") EXCEPT
            !.sessions = [sessions EXCEPT
                            ![sid] = WriteBack(@, session, ExpireSession(session))]]
    ELSE IF ~users[uid].is_active THEN Return("USER_INACTIVE")
    ELSE IF ~tenants[users[uid].tenant_id].is_active THEN Return("TENANT_INACTIVE")
    ELSE [Return("OK") EXCEPT
            !.n = n,
            !.sessions = Append([sessions EXCEPT
                                   ![sid] = WriteBack(@, session, RotateOld(session))],
                                NewSession(uid, n)),
            !.issued = Append(issued, NewTokenPair(uid, users[uid].tenant_id, n)),
            !.rotated = rotated \cup {refresh_token}]

\* AuthService.refresh_tokens
refresh_tokens(refresh_token) ==
    LET sid == FindSessionByRefresh(hash_refresh_token(refresh_token)) IN
    RefreshLoaded(sid, Loaded(sessions, sid), refresh_token)

\* ----------------------------------------------------------------- logout
\* logout: the session lookup (lines 571-575)
FindActiveSessionByJti(uid, jti) ==
    First({i \in Ids(sessions) : sessions[i].user_id = uid
                                 /\ sessions[i].access_token_jti = jti
                                 /\ ~sessions[i].is_revoked})

\* logout: revocation (lines 578-580)
LogoutRevoke(s) ==
    [s EXCEPT !.is_revoked = TRUE, !.revoked_at = now, !.revoked_reason = "logout"]

logout(access_token) ==
    LET sid == FindActiveSessionByJti(access_token.sub, access_token.jti) IN
    IF decode_access_token(access_token) # "OK" THEN Return("FALSE")
    ELSE IF sid # 0
    THEN [Return("TRUE") EXCEPT
            !.sessions = [sessions EXCEPT ![sid] = LogoutRevoke(@)],
            !.audit = log_action(audit, "user.logout", access_token.sub)]
    ELSE Return("TRUE")

\* the endpoint handing on what AuthService.logout returned
logout_endpoint_PassThrough(token) ==
    IF token = NoToken THEN Return("TRUE") ELSE logout(token)

\* POST /logout (auth_routes.py lines 279-309): the value AuthService.logout
\* returns is dropped and the response is {"success": true}
logout_endpoint(token) ==
    IF token = NoToken THEN Return("TRUE") ELSE [logout(token) EXCEPT !.code = "TRUE"]

\* the filter on the caller's jti left out
LogoutAllTargets_NoExcept(uid, except_jti) ==
    {i \in Ids(sessions) : sessions[i].user_id = uid /\ ~sessions[i].is_revoked}

\* logout_all_sessions: the sessions selected (lines 607-615)
LogoutAllTargets(uid, except_jti) ==
    {i \in Ids(sessions) : /\ sessions[i].user_id = uid
                           /\ ~sessions[i].is_revoked
                           /\ (except_jti # NULL => sessions[i].access_token_jti # except_jti)}

\* logout_all_sessions: revocation (lines 619-621)
LogoutAllRevoke(s) ==
    [s EXCEPT !.is_revoked = TRUE, !.revoked_at = now, !.revoked_reason = "logout_all"]

\* logout_all_sessions: the table after the loop (lines 618-623)
LogoutAllApplied(uid, except_jti) ==
    [i \in Ids(sessions) |->
        IF i \in LogoutAllTargets(uid, except_jti)
        THEN LogoutAllRevoke(sessions[i]) ELSE sessions[i]]

logout_all_sessions(uid, except_jti) ==
    [Return("OK") EXCEPT
        !.n = Cardinality(LogoutAllTargets(uid, except_jti)),
        !.sessions = LogoutAllApplied(uid, except_jti)]

\* change_password storing the new hash before it validates the new password
change_password_raising_HashFirst(uid, current_password, new_password, logout_others, nested_raises, audit_raises) ==
    IF uid \notin Ids(users) THEN Return("USER_NOT_FOUND")
    ELSE IF ~verify_password(current_password, users[uid].password_hash)
    THEN Return("WRONG_PASSWORD")
    ELSE IF validate_password_strength(new_password) # {}
    THEN [Return("WEAK_PASSWORD") EXCEPT
            !.users = [users EXCEPT ![uid].password_hash = hash_password(new_password)]]
    ELSE [Return("OK") EXCEPT
            !.users = [users EXCEPT ![uid].password_hash = hash_password(new_password)],
            !.audit = log_action(audit, "user.password_changed", uid)]

\* -------------------------------------------------------- change_password
\* change_password (lines 673-718) with the exceptions its steps can meet.
\* The nested logout_all_sessions works on the same database session: its
\* db.commit() (line 623) commits the new hash with the revocations, its
\* except branch (lines 626-628) rolls the new hash back and returns 0 to a
\* caller that goes on.  `nested_raises`: the nested call raises inside its
\* try; `audit_raises`: _log_action or the last db.commit() raises;
\* `logout_others`: the argument logout_other_sessions.
change_password_raising(uid, current_password, new_password, logout_others, nested_raises, audit_raises) ==
    LET hashed == [users EXCEPT ![uid].password_hash = hash_password(new_password)]
        nested_committed == logout_others /\ ~nested_raises
        nested_rolled_back == logout_others /\ nested_raises
    IN
    IF uid \notin Ids(users) THEN Return("USER_NOT_FOUND")
    ELSE IF ~verify_password(current_password, users[uid].password_hash)
    THEN Return("WRONG_PASSWORD")
    ELSE IF validate_password_strength(new_password) # {} THEN Return("WEAK_PASSWORD")
    ELSE IF audit_raises
    THEN [Return("CHANGE_ERROR") EXCEPT
            !.users = IF nested_committed THEN hashed ELSE users,
            !.sessions = IF nested_committed THEN LogoutAllApplied(uid, NULL) ELSE sessions]
    ELSE [Return("OK") EXCEPT
            !.users = IF nested_rolled_back THEN users ELSE hashed,
            !.sessions = IF nested_committed THEN LogoutAllApplied(uid, NULL) ELSE sessions,
            !.audit = log_action(audit, "user.password_changed", uid)]

\* AuthService.change_password when nothing raises
change_password(uid, current_password, new_password, logout_other_sessions) ==
    change_password_raising(uid, current_password, new_password, logout_other_sessions,
                            FALSE, FALSE)

\* PUT /password behind require_auth (auth_routes.py lines 407-475): the
\* handler passes g.user_id and the body to AuthService.change_password; the
\* jti of the caller's token is not passed on
change_password_endpoint(token, current_password, new_password, logout_others) ==
    IF require_auth(token) # "OK" THEN Return("401")
    ELSE change_password(token.sub, current_password, new_password, logout_others)

\* ---------------------------------------------------------- password reset
\* User.email.ilike(email): the argument is a LIKE pattern, compared ignoring case
ilike(column, pattern) == pattern = "%" \/ lower(pattern) = lower(column)

\* request_password_reset: the user lookup (lines 817-820)
FindActiveUserLike(pattern) ==
    First({u \in Ids(users) : ilike(users[u].email, pattern) /\ users[u].is_active})

\* request_password_reset: the rows the bulk UPDATE matches (lines 833-835)
InvalidateTargets(uid) ==
    {k \in Ids(reset_tokens) : reset_tokens[k].user_id = uid /\ ~reset_tokens[k].used}

\* request_password_reset: the bulk UPDATE on the rows it matched (line 836)
Invalidate(targets) ==
    [k \in Ids(reset_tokens) |->
        IF k \in targets
        THEN [reset_tokens[k] EXCEPT !.used = TRUE, !.used_at = now]
        ELSE reset_tokens[k]]

\* request_password_reset: invalidation of the user's unused tokens (lines 833-836)
InvalidatePrior(uid) == Invalidate(InvalidateTargets(uid))

\* request_password_reset: the new PasswordResetToken row (lines 839-849)
NewResetToken(uid, k) ==
    [user_id |-> uid, token_hash |-> hash_refresh_token(k),
     expires_at |-> now + RESET_TICKS, used |-> FALSE, used_at |-> NULL]

\* the request invalidating the earlier tokens before it looks at the
\* organization
RequestLoaded_InvalidateFirst(uid, targets) ==
    LET k == Len(reset_tokens) + 1 IN
    IF uid = 0 THEN Return("OK")
    ELSE IF ~tenants[users[uid].tenant_id].is_active
    THEN [Return("OK") EXCEPT !.reset_tokens = Invalidate(targets)]
    ELSE [Return("OK") EXCEPT
            !.n = k,
            !.reset_tokens = Append(Invalidate(targets), NewResetToken(uid, k)),
            !.audit = log_action(audit, "user.password_reset_requested", uid)]

\* the request served without looking at the organization
RequestLoaded_NoTenantCheck(uid, targets) ==
    LET k == Len(reset_tokens) + 1 IN
    IF uid = 0 THEN Return("OK")
    ELSE [Return("OK") EXCEPT
            !.n = k,
            !.reset_tokens = Append(Invalidate(targets), NewResetToken(uid, k)),
            !.audit = log_action(audit, "user.password_reset_requested", uid)]

\* request_password_reset after its bulk UPDATE matched the rows `targets`
\* (lines 822-877); returns n = the raw token, 0 for None
RequestLoaded(uid, targets) ==
    LET k == Len(reset_tokens) + 1 IN
    IF uid = 0 THEN Return("OK")
    ELSE IF ~tenants[users[uid].tenant_id].is_active THEN Return("OK")
    ELSE [Return("OK") EXCEPT
            !.n = k,
            !.reset_tokens = Append(Invalidate(targets), NewResetToken(uid, k)),
            !.audit = log_action(audit, "user.password_reset_requested", uid)]

\* AuthService.request_password_reset
request_password_reset(email) ==
    LET uid == FindActiveUserLike(email) IN
    RequestLoaded(uid, InvalidateTargets(uid))

\* verify_reset_token: the token lookup (lines 884-888)
FindUsableResetToken(h) ==
    First({k \in Ids(reset_tokens) : /\ reset_tokens[k].token_hash = h
                                     /\ ~reset_tokens[k].used
                                     /\ reset_tokens[k].expires_at > now})

\* AuthService.verify_reset_token
verify_reset_token(token) ==
    IF FindUsableResetToken(hash_refresh_token(token)) # 0
    THEN Return("TRUE") ELSE Return("FALSE")

\* reset_password: the token lookup (lines 914-917)
FindUnusedResetToken(h) ==
    First({k \in Ids(reset_tokens) : reset_tokens[k].token_hash = h
                                     /\ ~reset_tokens[k].used})

\* the filter on the flag turned around
ResetRevokeTargets_WrongFlag(uid) ==
    {i \in Ids(sessions) : sessions[i].user_id = uid /\ sessions[i].is_revoked}

\* reset_password: the sessions revoked (lines 940-942)
ResetRevokeTargets(uid) ==
    {i \in Ids(sessions) : sessions[i].user_id = uid /\ ~sessions[i].is_revoked}

\* reset_password: revocation (lines 943-947)
ResetRevoke(s) ==
    [s EXCEPT !.is_revoked = TRUE, !.revoked_at = now, !.revoked_reason = "password_reset"]

\* the reset that clears the lockout and keeps the password
ResetUser_KeepsPassword(user, new_password) ==
    [user EXCEPT !.failed_login_attempts = 0, !.locked_until = NULL]

\* the reset that stores the new password and leaves the lockout columns
ResetUser_KeepsLockout(user, new_password) ==
    [user EXCEPT !.password_hash = hash_password(new_password)]

\* reset_password: the user row after the reset (lines 931-933)
ResetUser(user, new_password) ==
    [user EXCEPT !.password_hash = hash_password(new_password),
                 !.failed_login_attempts = 0, !.locked_until = NULL]

\* the timestamp written without the flag
MarkUsed_OnlyTimestamp(t) == [t EXCEPT !.used_at = now]

\* reset_password: the token row after the reset (lines 936-937)
MarkUsed(t) == [t EXCEPT !.used = TRUE, !.used_at = now]

\* reset_password after the token lookup (lines 919-958): `row` is the row
\* the lookup loaded as token `k`, or k = 0 when it found none
ResetLoaded(k, row, token, new_password) ==
    LET uid == row.user_id IN
    IF k = 0 THEN Return("INVALID_RESET_TOKEN")
    ELSE IF row.expires_at < now THEN Return("RESET_TOKEN_EXPIRED")
    ELSE IF uid \notin Ids(users) \/ ~users[uid].is_active THEN Return("USER_INACTIVE")
    ELSE [Return("OK") EXCEPT
            !.users = [users EXCEPT ![uid] = ResetUser(@, new_password)],
            !.reset_tokens = [reset_tokens EXCEPT ![k] = WriteBack(@, row, MarkUsed(row))],
            !.sessions = [i \in Ids(sessions) |->
                            IF i \in ResetRevokeTargets(uid)
                            THEN ResetRevoke(sessions[i]) ELSE sessions[i]],
            !.audit = log_action(audit, "user.password_reset_completed", uid),
            !.consumed = consumed \cup {token}]

\* AuthService.reset_password
reset_password(token, new_password) ==
    LET k == FindUnusedResetToken(hash_refresh_token(token)) IN
    IF validate_password_strength(new_password) # {} THEN Return("WEAK_PASSWORD")
    ELSE ResetLoaded(k, Loaded(reset_tokens, k), token, new_password)

\* ------------------------------------------- DELETE /sessions/<session_id>
\* the endpoint as a toggle of the flag
UserRevoke_Toggle(s) ==
    [s EXCEPT !.is_revoked = ~@, !.revoked_at = now, !.revoked_reason = "user_revoked"]

\* revoke_session: revocation (auth_routes.py lines 649-651)
UserRevoke(s) ==
    [s EXCEPT !.is_revoked = TRUE, !.revoked_at = now, !.revoked_reason = "user_revoked"]

\* revoke_session behind require_auth.  SessionLocal is defined outside the
\* sources at hand: db.func.now() either evaluates, and the row is committed,
\* or raises (`raises`), and the handler answers 500 with nothing committed.
revoke_session(access_token, session_id, raises) ==
    IF decode_access_token(access_token) # "OK" THEN Return("401")
    ELSE IF ~(session_id \in Ids(sessions)
              /\ sessions[session_id].user_id = access_token.sub)
    THEN Return("404")
    ELSE IF raises THEN Return("500")
    ELSE [Return("200") EXCEPT
            !.sessions = [sessions EXCEPT ![session_id] = UserRevoke(@)]]

\* ------------------------------------------------------------------ clock
Tick ==
    /\ now' = now + 1
    /\ UNCHANGED <<db, issued, rotated, consumed, procs>>

\* ------------------------------------------------- the service, all calls
SignupInputs ==
    {<<"a@x.com", "Abcd1234", "Acme">>, <<"A@X.com", "Abcd1234", "Acme 1">>,
     <<"b@x.com", "Abcd1234", "Acme">>, <<"b@x.com", "wrong", "Acme 1">>,
     <<"nobody", "Abcd1234", "Acme">>}
LoginInputs ==
    {<<"a@x.com", "Abcd1234">>, <<"A@X.com", "NewPass123">>, <<"a@x.com", "wrong">>,
     <<"b@x.com", "Abcd1234">>, <<"nobody", "Abcd1234">>}
ChangeInputs ==
    {<<"Abcd1234", "NewPass123">>, <<"Abcd1234", "wrong">>, <<"wrong", "NewPass123">>}
ResetEmailInputs == {"a@x.com", "A@X.com", "b@x.com", "nobody", "%"}
PasswordInputs == {"Abcd1234", "NewPass123", "wrong"}
RefreshInputs == 0..Len(issued)
ResetTokenInputs == 0..Len(reset_tokens)
JtiInputs == {NULL} \cup Ids(sessions)

\* the part of the state space a specification explores
Within(maxSessions, maxTokens, maxAudit, maxNow, maxFailed) ==
    /\ Len(sessions) <= maxSessions
    /\ Len(reset_tokens) <= maxTokens
    /\ Len(audit) <= maxAudit
    /\ now <= maxNow
    /\ \A u \in Ids(users) : users[u].failed_login_attempts <= maxFailed

InSpec == Within(MaxSessions, MaxResetTokens, MaxAudit, MaxNow, MaxFailed)

Signup == \E i \in SignupInputs : Commit(signup(i[1], i[2], i[3])) /\ InSpec'
Login == \E i \in LoginInputs : Commit(login(i[1], i[2])) /\ InSpec'
Refresh == \E r \in RefreshInputs : Commit(refresh_tokens(r)) /\ InSpec'
Logout == \E t \in AccessInputs : Commit(logout(t)) /\ InSpec'
LogoutAll ==
    \E u \in Ids(users), x \in JtiInputs : Commit(logout_all_sessions(u, x)) /\ InSpec'
Validate == \E t \in AccessInputs : Commit(validate_access_token(t))
ChangePassword ==
    \E u \in Ids(users), i \in ChangeInputs, b \in BOOLEAN :
        Commit(change_password(u, i[1], i[2], b)) /\ InSpec'
RequestReset == \E e \in ResetEmailInputs : Commit(request_password_reset(e)) /\ InSpec'
VerifyReset == \E t \in ResetTokenInputs : Commit(verify_reset_token(t))
ResetPassword ==
    \E t \in ResetTokenInputs, p \in PasswordInputs :
        Commit(reset_password(t, p)) /\ InSpec'
RevokeSession ==
    \E t \in AccessInputs, s \in Ids(sessions), raises \in BOOLEAN :
        Commit(revoke_session(t, s, raises))
Clock == Tick /\ InSpec'

Next ==
    \/ Signup
    \/ Login
    \/ Refresh
    \/ Logout
    \/ LogoutAll
    \/ Validate
    \/ ChangePassword
    \/ RequestReset
    \/ VerifyReset
    \/ ResetPassword
    \/ RevokeSession
    \/ Clock

Spec == Init /\ [][Next]_vars

\* --------------------------------------------- states after the first signups
\* the database after signup("a@x.com", "Abcd1234", "Acme") at time 0
DbA ==
    /\ now = 0
    /\ tenants = <<[name |-> "Acme", slug |-> <<"acme">>, is_active |-> TRUE]>>
    /\ users = <<NewUser(1, "a@x.com", "Abcd1234")>>
    /\ sessions = <<NewSession(1, 1)>>
    /\ issued = <<NewTokenPair(1, 1, 1)>>
    /\ audit = log_action(<<>>, "user.signup", 1)
    /\ reset_tokens = <<>>
    /\ rotated = {}
    /\ consumed = {}

InitA == DbA /\ procs = NoProcs

\* ... followed by signup("b@x.com", "Abcd1234", "Acme") at time 0
InitAB ==
    /\ now = 0
    /\ tenants = <<[name |-> "Acme", slug |-> <<"acme">>, is_active |-> TRUE],
                   [name |-> "Acme", slug |-> <<"acme", 1>>, is_active |-> TRUE]>>
    /\ users = <<NewUser(1, "a@x.com", "Abcd1234"), NewUser(2, "b@x.com", "Abcd1234")>>
    /\ sessions = <<NewSession(1, 1), NewSession(2, 2)>>
    /\ issued = <<NewTokenPair(1, 1, 1), NewTokenPair(2, 2, 2)>>
    /\ audit = log_action(log_action(<<>>, "user.signup", 1), "user.signup", 2)
    /\ reset_tokens = <<>>
    /\ rotated = {}
    /\ consumed = {}
    /\ procs = NoProcs

\* ------------------------------- SpecRotation: the sessions of one user
InRotation ==
    /\ Len(sessions) <= RotSessions
    /\ now <= RotNow

RotLogin == Commit(login("a@x.com", "Abcd1234")) /\ InRotation'
RotRefresh == \E r \in RefreshInputs : Commit(refresh_tokens(r)) /\ InRotation'
RotLogout == \E t \in AccessInputs : Commit(logout(t))
RotLogoutAll == \E x \in JtiInputs : Commit(logout_all_sessions(1, x))
RotRevoke ==
    \E t \in AccessInputs, s \in Ids(sessions), raises \in BOOLEAN :
        Commit(revoke_session(t, s, raises))
RotClock == Tick /\ InRotation'

NextRotation ==
    \/ RotLogin
    \/ RotRefresh
    \/ RotLogout
    \/ RotLogoutAll
    \/ RotRevoke
    \/ RotClock

SpecRotation == InitA /\ [][NextRotation]_vars

\* ------------------------------ SpecLockout: the lockout of one account
InLockout ==
    /\ Len(sessions) <= LockSessions
    /\ now <= LockNow
    /\ \A u \in Ids(users) : users[u].failed_login_attempts <= LockFailed

LockoutInputs ==
    {<<"a@x.com", "Abcd1234">>, <<"a@x.com", "wrong">>, <<"A@X.com", "NewPass123">>,
     <<"nobody", "Abcd1234">>}

LockLogin == \E i \in LockoutInputs : Commit(login(i[1], i[2])) /\ InLockout'
LockClock == Tick /\ InLockout'

NextLockout ==
    \/ LockLogin
    \/ LockClock

SpecLockout == InitA /\ [][NextLockout]_vars

\* the lockout of one account while time passes: utc_now() advances whatever
\* the callers do
SpecLockoutLive == SpecLockout /\ WF_vars(LockClock)

\* ------------------------------ SpecReset: password reset with two users
InReset ==
    /\ Len(sessions) <= RstSessions
    /\ Len(reset_tokens) <= RstTokens
    /\ now <= RstNow
    /\ \A u \in Ids(users) : users[u].failed_login_attempts <= RstFailed

ResetLoginInputs ==
    {<<"a@x.com", "Abcd1234">>, <<"a@x.com", "NewPass123">>, <<"b@x.com", "Abcd1234">>}

RstLogin == \E i \in ResetLoginInputs : Commit(login(i[1], i[2])) /\ InReset'
RstRequest == \E e \in ResetEmailInputs : Commit(request_password_reset(e)) /\ InReset'
RstVerify == \E t \in ResetTokenInputs : Commit(verify_reset_token(t))
RstReset ==
    \E t \in ResetTokenInputs, p \in PasswordInputs : Commit(reset_password(t, p))
RstValidate == \E t \in AccessInputs : Commit(validate_access_token(t))
RstClock == Tick /\ InReset'

NextReset ==
    \/ RstLogin
    \/ RstRequest
    \/ RstVerify
    \/ RstReset
    \/ RstValidate
    \/ RstClock

SpecReset == InitAB /\ [][NextReset]_vars

\* ------------------------------- SpecSessions: the sessions of two users
InSessions ==
    /\ Len(sessions) <= SesSessions
    /\ now <= SesNow

SesLoginInputs == {<<"a@x.com", "Abcd1234">>, <<"b@x.com", "Abcd1234">>}

SesLogin == \E i \in SesLoginInputs : Commit(login(i[1], i[2])) /\ InSessions'
SesRefresh == \E r \in RefreshInputs : Commit(refresh_tokens(r)) /\ InSessions'
SesLogout == \E t \in LogoutInputs : Commit(logout_endpoint(t))
SesLogoutAll ==
    \E u \in Ids(users), x \in JtiInputs : Commit(logout_all_sessions(u, x))
SesValidate == \E t \in AccessInputs : Commit(validate_access_token(t))
SesCurrentUser == \E t \in LogoutInputs : Commit(current_user_endpoint(t))
SesClock == Tick /\ InSessions'

NextSessions ==
    \/ SesLogin
    \/ SesRefresh
    \/ SesLogout
    \/ SesLogoutAll
    \/ SesValidate
    \/ SesCurrentUser
    \/ SesClock

SpecSessions == InitAB /\ [][NextSessions]_vars

\* --------------------------------------------------- concurrent requests
\* Each request runs AuthService on a database session of its own
\* (auth_routes.get_db). Its query loads a row, and the changes it makes to
\* the row reach the database at its db.commit(); requests of other
\* processes may run in between. procs[p] is the position of request p:
\* its argument, and the id and the attributes of the row it loaded.
Idle == [pc |-> "idle", arg |-> NULL, id |-> 0, row |-> NULL, code |-> ""]

AtQuery(p, arg, id, row) ==
    procs' = [procs EXCEPT
                ![p] = [pc |-> "loaded", arg |-> arg, id |-> id, row |-> row, code |-> ""]]

Returned(p, arg, code) ==
    procs' = [procs EXCEPT ![p] = [Idle EXCEPT !.pc = "done", !.arg = arg, !.code = code]]

\* db.commit() of a row that another request changed since it was loaded:
\* the UPDATE by primary key goes through, or the database rejects it and
\* the except branch rolls back (lines 457-463, 543-549)
CommitOutcomes(cur, loaded) == IF cur # loaded THEN BOOLEAN ELSE {FALSE}

\* --------------------- SpecRefreshRace: refresh calls that run concurrently
InRefreshRace ==
    /\ Len(sessions) <= RaceSessions
    /\ now <= RaceNow

\* refresh_tokens up to the session lookup (lines 481-494)
RaceFind(p) ==
    /\ procs[p].pc = "idle"
    /\ \E r \in RefreshInputs :
          LET sid == FindSessionByRefresh(hash_refresh_token(r)) IN
          IF sid = 0
          THEN Returned(p, r, RefreshLoaded(0, NULL, r).code)
          ELSE AtQuery(p, r, sid, sessions[sid])
    /\ UNCHANGED <<db, now, issued, rotated, consumed>>

\* refresh_tokens from the expiry check to the commit (lines 496-549)
RaceRotate(p) ==
    /\ procs[p].pc = "loaded"
    /\ \E raises \in CommitOutcomes(sessions[procs[p].id], procs[p].row) :
          LET out == IF raises THEN Return("REFRESH_ERROR")
                     ELSE RefreshLoaded(procs[p].id, procs[p].row, procs[p].arg)
          IN Write(out) /\ Returned(p, procs[p].arg, out.code)
    /\ now' = now

RaceLogin == Commit(login("a@x.com", "Abcd1234")) /\ InRefreshRace'
RaceClock == Tick /\ InRefreshRace'

NextRefreshRace ==
    \/ \E p \in DOMAIN procs : RaceFind(p)
    \/ \E p \in DOMAIN procs : RaceRotate(p)
    \/ RaceLogin
    \/ RaceClock

InitRefreshRace == DbA /\ procs = [p \in 1..NumRefreshProcs |-> Idle]

SpecRefreshRace == InitRefreshRace /\ [][NextRefreshRace]_vars

\* ------------------------- SpecLoginRace: logins that run concurrently
RacePasswords == {"wrong", "Abcd1234"}

\* login up to the lock check (lines 368-391)
RaceLoad(p) ==
    /\ procs[p].pc = "idle"
    /\ \E pw \in RacePasswords :
          LET uid == FindActiveUser(lower("a@x.com")) IN
          IF uid = 0 \/ IsLocked(users[uid])
          THEN Returned(p, pw, LoginLoaded(uid, Loaded(users, uid), pw).code)
          ELSE AtQuery(p, pw, uid, users[uid])
    /\ UNCHANGED <<db, now, issued, rotated, consumed>>

\* login from the password verification to the commit (lines 393-463)
RaceStore(p) ==
    /\ procs[p].pc = "loaded"
    /\ \E raises \in CommitOutcomes(users[procs[p].id], procs[p].row) :
          LET out == IF raises THEN Return("LOGIN_ERROR")
                     ELSE LoginLoaded(procs[p].id, procs[p].row, procs[p].arg)
          IN Write(out) /\ Returned(p, procs[p].arg, out.code)
    /\ now' = now

LoginRaceClock == Tick /\ now' <= LoginRaceNow

NextLoginRace ==
    \/ \E p \in DOMAIN procs : RaceLoad(p)
    \/ \E p \in DOMAIN procs : RaceStore(p)
    \/ LoginRaceClock

InitLoginRace == DbA /\ procs = [p \in 1..NumLoginProcs |-> Idle]

SpecLoginRace == InitLoginRace /\ [][NextLoginRace]_vars

\* ------------ SpecResetRace: password-reset requests that run concurrently
ResetRaceEmails == {"a@x.com", "nobody"}

\* request_password_reset up to its bulk UPDATE (lines 815-836): the UPDATE
\* runs inside the request's transaction on the rows it matches now
RaceInvalidate(p) ==
    /\ procs[p].pc = "idle"
    /\ \E e \in ResetRaceEmails :
          LET uid == FindActiveUserLike(e) IN
          IF uid = 0 \/ ~tenants[users[uid].tenant_id].is_active
          THEN Returned(p, e, RequestLoaded(uid, {}).n)
          ELSE AtQuery(p, e, uid, InvalidateTargets(uid))
    /\ UNCHANGED <<db, now, issued, rotated, consumed>>

\* request_password_reset from the new token to the commit (lines 838-877);
\* the code recorded is the token returned, NULL when the call failed
RaceIssue(p) ==
    /\ procs[p].pc = "loaded"
    /\ \E raises \in CommitOutcomes(InvalidateTargets(procs[p].id), procs[p].row) :
          LET out == IF raises THEN [Return("ERROR") EXCEPT !.n = NULL]
                     ELSE RequestLoaded(procs[p].id, procs[p].row)
          IN Write(out) /\ Returned(p, procs[p].arg, out.n)
    /\ now' = now

ResetRaceReset ==
    \E t \in ResetTokenInputs, pw \in PasswordInputs : Commit(reset_password(t, pw))
ResetRaceClock == Tick /\ now' <= ResetRaceNow

NextResetRace ==
    \/ \E p \in DOMAIN procs : RaceInvalidate(p)
    \/ \E p \in DOMAIN procs : RaceIssue(p)
    \/ ResetRaceReset
    \/ ResetRaceClock

InitResetRace == DbA /\ procs = [p \in 1..NumResetProcs |-> Idle]

SpecResetRace == InitResetRace /\ [][NextResetRace]_vars

\* ------------- SpecTenant: one user, the organization switched off and on
\* Tenant.is_active is written outside auth_service.py (the model class and
\* the administration that deactivates an organization are not part of the
\* sources at hand); the handlers only read it.  The write is one UPDATE.
set_tenant_active(t, active) ==
    [Return("OK") EXCEPT !.tenants = [tenants EXCEPT ![t].is_active = active]]

InTenant ==
    /\ Len(sessions) <= TenSessions
    /\ Len(reset_tokens) <= TenTokens
    /\ now <= TenNow
    /\ \A u \in Ids(users) : users[u].failed_login_attempts <= TenFailed

TenantLoginInputs == {<<"a@x.com", "Abcd1234">>, <<"a@x.com", "wrong">>}

TenSetActive ==
    \E t \in Ids(tenants), b \in BOOLEAN :
        /\ tenants[t].is_active # b
        /\ Commit(set_tenant_active(t, b))
TenLogin == \E i \in TenantLoginInputs : Commit(login(i[1], i[2])) /\ InTenant'
TenRefresh == \E r \in RefreshInputs : Commit(refresh_tokens(r)) /\ InTenant'
TenRequest == Commit(request_password_reset("a@x.com")) /\ InTenant'
TenClock == Tick /\ InTenant'

NextTenant ==
    \/ TenSetActive
    \/ TenLogin
    \/ TenRefresh
    \/ TenRequest
    \/ TenClock

SpecTenant == InitA /\ [][NextTenant]_vars

\* ------------ SpecResetFlow: one user who forgets, resets and logs in
InResetFlow ==
    /\ Len(sessions) <= FlowSessions
    /\ Len(reset_tokens) <= FlowTokens
    /\ now <= FlowNow
    /\ \A u \in Ids(users) : users[u].failed_login_attempts <= FlowFailed

FlowPasswords == {"Abcd1234", "NewPass123"}

FlowRequest == Commit(request_password_reset("a@x.com")) /\ InResetFlow'
FlowVerify == \E t \in ResetTokenInputs : Commit(verify_reset_token(t))
FlowReset ==
    \E t \in ResetTokenInputs, pw \in PasswordInputs :
        Commit(reset_password(t, pw)) /\ InResetFlow'
FlowLogin == \E pw \in FlowPasswords : Commit(login("a@x.com", pw)) /\ InResetFlow'
FlowClock == Tick /\ InResetFlow'

NextResetFlow ==
    \/ FlowRequest
    \/ FlowVerify
    \/ FlowReset
    \/ FlowLogin
    \/ FlowClock

SpecResetFlow == InitA /\ [][NextResetFlow]_vars

\* ------------------ SpecSignupRace: signups that run concurrently
\* A signup runs in one transaction: db.flush() sends its INSERTs to the
\* database without committing them, db.commit() makes them visible to the
\* other requests, db.rollback() in the except branch discards them.
\* procs[p].row holds the rows request p has built and flushed so far.
SignupRaceInputs ==
    {<<"b@x.com", "Abcd1234", "Acme">>, <<"b@x.com", "Abcd1234", "Acme 1">>,
     <<"c@x.com", "Abcd1234", "Acme">>, <<"a@x.com", "Abcd1234", "Acme">>,
     <<"b@x.com", "wrong", "Acme">>}

\* the committed rows of `table` after a transaction flushed `row`
flush_Autocommit(table, row) == Append(table, row)

\* the committed rows of `table` after a transaction flushed `row`
\* (lines 303-304, 315-316): the INSERT stays inside the transaction
flush(table, row) == table

\* a schema without the two constraints
EmailTaken_NoConstraint(e) == FALSE
SlugTaken_NoConstraint(slug) == FALSE

\* the uniqueness the schema declares for users.email and tenants.slug
\* (database.models, described in the specification: email unique ignoring
\* case, slug globally unique): an INSERT of a taken value raises
EmailTaken(e) == \E u \in Ids(users) : lower(users[u].email) = lower(e)
SlugTaken(slug) == \E t \in Ids(tenants) : tenants[t].slug = slug

AtStep(p, pc, arg, row) ==
    procs' = [procs EXCEPT
                ![p] = [pc |-> pc, arg |-> arg, id |-> 0, row |-> row, code |-> ""]]

\* signup up to the query for an existing user (lines 256-286)
SignupCheck(p) ==
    /\ procs[p].pc = "idle"
    /\ \E i \in SignupRaceInputs :
          IF signup(i[1], i[2], i[3]).code # "OK"
          THEN Returned(p, i, signup(i[1], i[2], i[3]).code)
          ELSE AtStep(p, "checked", i, NULL)
    /\ UNCHANGED <<db, now, issued, rotated, consumed>>

\* signup: the slug queries and the Tenant object (lines 288-302)
SignupSlug(p) ==
    /\ procs[p].pc = "checked"
    /\ AtStep(p, "slugged", procs[p].arg, NewTenant(procs[p].arg[3]))
    /\ UNCHANGED <<db, now, issued, rotated, consumed>>

\* signup: db.add(tenant); db.flush() (lines 303-304)
SignupFlushTenant(p) ==
    /\ procs[p].pc = "slugged"
    /\ IF SlugTaken(procs[p].row.slug)
       THEN Returned(p, procs[p].arg, "SIGNUP_ERROR") /\ UNCHANGED tenants
       ELSE /\ AtStep(p, "tenant_flushed", procs[p].arg, procs[p].row)
            /\ tenants' = flush(tenants, procs[p].row)
    /\ UNCHANGED <<users, sessions, reset_tokens, audit, now, issued, rotated, consumed>>

\* signup: the User object, db.add(user); db.flush() (lines 306-316)
SignupFlushUser(p) ==
    /\ procs[p].pc = "tenant_flushed"
    /\ IF EmailTaken(procs[p].arg[1])
       THEN Returned(p, procs[p].arg, "SIGNUP_ERROR") /\ UNCHANGED users
       ELSE /\ AtStep(p, "user_flushed", procs[p].arg, procs[p].row)
            /\ users' = flush(users, NewUser(Len(tenants) + 1, lower(procs[p].arg[1]),
                                             procs[p].arg[2]))
    /\ UNCHANGED <<tenants, sessions, reset_tokens, audit, now, issued, rotated, consumed>>

\* signup: the directory, the token pair, the audit entry and db.commit()
\* (lines 318-342); the commit fails on a value another request has
\* committed in between
SignupCommit(p) ==
    /\ procs[p].pc = "user_flushed"
    /\ LET out == IF SlugTaken(procs[p].row.slug) \/ EmailTaken(procs[p].arg[1])
                  THEN Return("SIGNUP_ERROR")
                  ELSE SignupLoaded(lower(procs[p].arg[1]), procs[p].arg[2], procs[p].row)
       IN Write(out) /\ Returned(p, procs[p].arg, out.code)
    /\ now' = now
    /\ Len(sessions') <= SignupRaceSessions

\* signup: an exception raised after the email check (a directory that
\* cannot be created, a lost connection) and the except branch
\* (lines 344-350)
SignupRaise(p) ==
    /\ procs[p].pc \in {"checked", "slugged", "tenant_flushed", "user_flushed"}
    /\ Returned(p, procs[p].arg, "SIGNUP_ERROR")
    /\ UNCHANGED <<db, now, issued, rotated, consumed>>

NextSignupRace ==
    \/ \E p \in DOMAIN procs : SignupCheck(p)
    \/ \E p \in DOMAIN procs : SignupSlug(p)
    \/ \E p \in DOMAIN procs : SignupFlushTenant(p)
    \/ \E p \in DOMAIN procs : SignupFlushUser(p)
    \/ \E p \in DOMAIN procs : SignupCommit(p)
    \/ \E p \in DOMAIN procs : SignupRaise(p)

InitSignupRace == DbA /\ procs = [p \in 1..NumSignupProcs |-> Idle]

SpecSignupRace == InitSignupRace /\ [][NextSignupRace]_vars

\* ------------- SpecChange: one user who logs in and changes the password
InChange ==
    /\ Len(sessions) <= ChgSessions
    /\ Len(audit) <= ChgAudit
    /\ now <= ChgNow

ChgInputs == ChangeInputs \cup {<<"NewPass123", "Abcd1234">>}

ChgLogin == \E pw \in FlowPasswords : Commit(login("a@x.com", pw)) /\ InChange'
ChgChange ==
    \E u \in Ids(users), i \in ChgInputs, b, nested_raises, audit_raises \in BOOLEAN :
        /\ Commit(change_password_raising(u, i[1], i[2], b, nested_raises, audit_raises))
        /\ InChange'
ChgClock == Tick /\ InChange'

ChgEndpoint ==
    \E t \in AccessInputs, i \in ChgInputs, b \in BOOLEAN :
        Commit(change_password_endpoint(t, i[1], i[2], b)) /\ InChange'

NextChange ==
    \/ ChgLogin
    \/ ChgChange
    \/ ChgEndpoint
    \/ ChgClock

SpecChange == InitA /\ [][NextChange]_vars

\* ------- SpecIssue: the token pairs signup, login and refresh hand out
InIssue ==
    /\ Len(sessions) <= IssSessions
    /\ now <= IssNow

IssueInputs == {<<"a@x.com", "Abcd1234", "Acme">>, <<"b@x.com", "Abcd1234", "Acme">>}

IssSignup == \E i \in IssueInputs : Commit(signup(i[1], i[2], i[3])) /\ InIssue'
IssLogin == \E i \in IssueInputs : Commit(login(i[1], i[2])) /\ InIssue'
IssRefresh == \E r \in RefreshInputs : Commit(refresh_tokens(r)) /\ InIssue'
IssLogout == \E t \in LogoutInputs : Commit(logout_endpoint(t))
IssValidate == \E t \in AccessInputs : Commit(validate_access_token(t))
IssClock == Tick /\ InIssue'

NextIssue ==
    \/ IssSignup
    \/ IssLogin
    \/ IssRefresh
    \/ IssLogout
    \/ IssValidate
    \/ IssClock

SpecIssue == Init /\ [][NextIssue]_vars

\* ---- SpecLockedReset: one user who is locked out and resets the password
InLockedReset ==
    /\ Len(sessions) <= LrSessions
    /\ Len(reset_tokens) <= LrTokens
    /\ now <= LrNow
    /\ \A u \in Ids(users) : users[u].failed_login_attempts <= LrFailed

LrLogin == \E pw \in FlowPasswords : Commit(login("a@x.com", pw)) /\ InLockedReset'
LrRequest == Commit(request_password_reset("a@x.com")) /\ InLockedReset'
LrReset ==
    \E t \in ResetTokenInputs, pw \in PasswordInputs :
        Commit(reset_password(t, pw)) /\ InLockedReset'
LrClock == Tick /\ InLockedReset'

NextLockedReset ==
    \/ LrLogin
    \/ LrRequest
    \/ LrReset
    \/ LrClock

SpecLockedReset == InitA /\ [][NextLockedReset]_vars

\* ---------- SpecUseRace: reset_password calls that run concurrently
UseInputs ==
    {<<t, pw>> : t \in ResetTokenInputs, pw \in {"NewPass123", "Abcd1234", "wrong"}}

\* reset_password up to the token lookup (lines 906-917)
UseFind(p) ==
    /\ procs[p].pc = "idle"
    /\ \E i \in UseInputs :
          LET k == FindUnusedResetToken(hash_refresh_token(i[1])) IN
          IF validate_password_strength(i[2]) # {} \/ k = 0
          THEN Returned(p, i, reset_password(i[1], i[2]).code)
          ELSE AtQuery(p, i, k, reset_tokens[k])
    /\ UNCHANGED <<db, now, issued, rotated, consumed>>

\* reset_password from the expiry check to the commit (lines 919-965)
UseStore(p) ==
    /\ procs[p].pc = "loaded"
    /\ \E raises \in CommitOutcomes(reset_tokens[procs[p].id], procs[p].row) :
          LET out == IF raises THEN Return("RESET_ERROR")
                     ELSE ResetLoaded(procs[p].id, procs[p].row,
                                      procs[p].arg[1], procs[p].arg[2])
          IN Write(out) /\ Returned(p, procs[p].arg, out.code)
    /\ now' = now

UseRequest ==
    /\ Commit(request_password_reset("a@x.com"))
    /\ Len(reset_tokens') <= UseTokens
UseClock == Tick /\ now' <= UseNow

NextUseRace ==
    \/ \E p \in DOMAIN procs : UseFind(p)
    \/ \E p \in DOMAIN procs : UseStore(p)
    \/ UseRequest
    \/ UseClock

InitUseRace == DbA /\ procs = [p \in 1..NumUseProcs |-> Idle]

SpecUseRace == InitUseRace /\ [][NextUseRace]_vars

\* =================================================================== claims

\* C1: a session whose revoked flag is true stays revoked in every later
\* state: no call sets the flag of an existing session back to false, and no
\* call removes the session.
C1_RevokedStaysRevoked ==
    [][\A i \in Ids(sessions) :
          sessions[i].is_revoked =>
              (i \in Ids(sessions') /\ sessions'[i].is_revoked)]_vars

\* a session revoked by logout whose owner has since completed a password
\* reset: the reset went over the user's sessions and left this one revoked
C1_Witness ==
    \E i \in Ids(sessions), k \in Ids(reset_tokens) :
        /\ sessions[i].is_revoked
        /\ sessions[i].revoked_reason = "logout"
        /\ k \in consumed
        /\ reset_tokens[k].user_id = sessions[i].user_id

\* C2: once refresh(R) has returned success, every later refresh(R) returns
\* INVALID_REFRESH_TOKEN, creates no session and issues no token pair.
C2_RotatedTokenIsDead ==
    \A r \in rotated :
        /\ refresh_tokens(r).code = "INVALID_REFRESH_TOKEN"
        /\ refresh_tokens(r).sessions = sessions
        /\ refresh_tokens(r).issued = issued

\* a rotated token presented again at a later time, while the session that
\* replaced it is still active
C2_Witness ==
    \E r \in rotated :
        /\ sessions[r].revoked_reason = "rotated"
        /\ now > sessions[r].revoked_at
        /\ \E j \in Ids(sessions) : j > r /\ ~sessions[j].is_revoked
        /\ refresh_tokens(r).code = "INVALID_REFRESH_TOKEN"

\* C3: of two refresh calls that ran concurrently with the same refresh
\* token, at most one returned success (so at most one new session was
\* created) and the other returned INVALID_REFRESH_TOKEN.
C3_OneConcurrentRotation ==
    \A p, q \in DOMAIN procs :
        (/\ p # q
         /\ procs[p].pc = "done" /\ procs[q].pc = "done"
         /\ procs[p].arg = procs[q].arg
         /\ procs[p].code = "OK")
        => procs[q].code = "INVALID_REFRESH_TOKEN"

\* the passwords that fail verification for user u
WrongFor(u) == {p \in PasswordInputs : users[u].password_hash # [bcrypt |-> p]}

\* lockedUntil of user u is set and in the future
LockPending(u) == users[u].locked_until # NULL /\ now < users[u].locked_until

\* C4: the fifth consecutive failed login sets lockedUntil 15 minutes ahead,
\* and while the counter stands at five or more every login before
\* lockedUntil returns ACCOUNT_LOCKED, the correct password included, and
\* creates no session.
C4_LockedAfterFive ==
    /\ [][\A u \in Ids(users) :
            (/\ users[u].failed_login_attempts = LOCK_THRESHOLD - 1
             /\ users'[u].failed_login_attempts = LOCK_THRESHOLD)
            => users'[u].locked_until = now + LOCK_TICKS]_vars
    /\ [](\A u \in Ids(users) :
            (users[u].failed_login_attempts >= LOCK_THRESHOLD /\ LockPending(u))
            => \A p \in PasswordInputs :
                  /\ login(users[u].email, p).code = "ACCOUNT_LOCKED"
                  /\ login(users[u].email, p).sessions = sessions)

\* five failures counted, one tick into the lock window, and the correct
\* password is refused
C4_Witness ==
    /\ users[1].failed_login_attempts = LOCK_THRESHOLD
    /\ users[1].locked_until = now + 1
    /\ verify_password("Abcd1234", users[1].password_hash)
    /\ login("a@x.com", "Abcd1234").code = "ACCOUNT_LOCKED"

\* C5 as stated: of five consecutive wrong-password logins the first four
\* return INVALID_CREDENTIALS and the fifth returns ACCOUNT_LOCKED.
C5_FifthReturnsLocked ==
    \A u \in Ids(users) : \A p \in WrongFor(u) :
        (~LockPending(u) /\ users[u].failed_login_attempts < LOCK_THRESHOLD)
        => login(users[u].email, p).code =
              IF users[u].failed_login_attempts = LOCK_THRESHOLD - 1
              THEN "ACCOUNT_LOCKED" ELSE "INVALID_CREDENTIALS"

\* C5 amended: each of the five consecutive wrong-password logins returns
\* INVALID_CREDENTIALS; the fifth sets lockedUntil, and it is the login
\* after it that returns ACCOUNT_LOCKED.
C5_FifthReturnsInvalid ==
    [][\A u \in Ids(users) : \A p \in WrongFor(u) :
          (/\ ~LockPending(u)
           /\ users[u].failed_login_attempts < LOCK_THRESHOLD
           /\ Commit(login(users[u].email, p)))
          => /\ login(users[u].email, p).code = "INVALID_CREDENTIALS"
             /\ users'[u].failed_login_attempts = users[u].failed_login_attempts + 1
             /\ (users[u].failed_login_attempts = LOCK_THRESHOLD - 1
                    => /\ users'[u].locked_until = now + LOCK_TICKS
                       /\ (login(users[u].email, p).code)' = "ACCOUNT_LOCKED")]_vars

\* the fifth failure has just been counted and the lock set
C5_Witness ==
    /\ users[1].failed_login_attempts = LOCK_THRESHOLD
    /\ users[1].locked_until = now + LOCK_TICKS
    /\ audit[Len(audit)].action = "user.locked"

\* C6: while lockedUntil is set and in the future, login returns
\* ACCOUNT_LOCKED whatever the password and leaves failedAttempts,
\* lockedUntil, the sessions and the audit log unchanged.
C6_LockedLoginChangesNothing ==
    \A u \in Ids(users), p \in PasswordInputs :
        LockPending(u)
        => /\ login(users[u].email, p).code = "ACCOUNT_LOCKED"
           /\ login(users[u].email, p).users = users
           /\ login(users[u].email, p).sessions = sessions
           /\ login(users[u].email, p).audit = audit

\* a locked account, with a wrong and with the correct password at hand
C6_Witness ==
    /\ LockPending(1)
    /\ WrongFor(1) # {}
    /\ WrongFor(1) # PasswordInputs
    /\ \A p \in PasswordInputs : login("a@x.com", p).code = "ACCOUNT_LOCKED"

\* C7: a login that returns success leaves failedAttempts = 0 and
\* lockedUntil = null and adds exactly one session, not revoked, owned by
\* that user; the sessions there were are unchanged.
C7_SuccessResetsLockout ==
    \A i \in LoginInputs :
        LET out == login(i[1], i[2])
            u == FindActiveUser(lower(i[1]))
        IN out.code = "OK"
           => /\ out.users[u].failed_login_attempts = 0
              /\ out.users[u].locked_until = NULL
              /\ Len(out.sessions) = Len(sessions) + 1
              /\ SubSeq(out.sessions, 1, Len(sessions)) = sessions
              /\ out.sessions[Len(out.sessions)].user_id = u
              /\ ~out.sessions[Len(out.sessions)].is_revoked

\* the account was locked, the lock ran out, and a login has since succeeded
C7_Witness ==
    /\ \E i, j \in Ids(audit) :
          /\ i < j
          /\ audit[i].action = "user.locked"
          /\ audit[j].action = "user.login"
          /\ audit[j].user_id = audit[i].user_id
    /\ users[1].failed_login_attempts = 0
    /\ users[1].locked_until = NULL

\* C8: once at least five concurrent wrong-password logins of an unlocked
\* user with failed_login_attempts = 0 have all completed, the stored
\* failed_login_attempts equals the number of calls that failed the password
\* verification and locked_until is set.
C8_ThresholdNeverSkipped ==
    (/\ Cardinality(DOMAIN procs) >= LOCK_THRESHOLD
     /\ \A p \in DOMAIN procs : procs[p].pc = "done" /\ procs[p].arg = "wrong")
    => /\ users[1].failed_login_attempts =
            Cardinality({p \in DOMAIN procs :
                            procs[p].code \in {"INVALID_CREDENTIALS", "LOGIN_ERROR"}})
       /\ users[1].locked_until # NULL

\* C9: a successful resetPassword leaves every session the user had revoked,
\* so that validateAccessToken accepts no access token issued to that user
\* before the reset; the sessions of other users are unchanged.
C9_ResetRevokesAllSessions ==
    \A t \in Ids(reset_tokens), p \in PasswordInputs :
        LET out == reset_password(t, p) IN
        out.code = "OK"
        => \A i \in Ids(sessions) :
              IF sessions[i].user_id = reset_tokens[t].user_id
              THEN /\ out.sessions[i].is_revoked
                   /\ Validated(out.sessions, issued[i].access_token) # "OK"
              ELSE out.sessions[i] = sessions[i]

\* a reset has revoked two sessions of its user whose access tokens are
\* still unexpired and now rejected, while the other user's session is active
C9_Witness ==
    \E k \in consumed :
        /\ \E i, j \in Ids(sessions) :
              /\ i # j
              /\ \A x \in {i, j} :
                    /\ sessions[x].user_id = reset_tokens[k].user_id
                    /\ sessions[x].revoked_reason = "password_reset"
                    /\ decode_access_token(issued[x].access_token) = "OK"
                    /\ validate_access_token(issued[x].access_token).code = "TOKEN_REVOKED"
        /\ \E j \in Ids(sessions) :
              /\ sessions[j].user_id # reset_tokens[k].user_id
              /\ ~sessions[j].is_revoked

\* C10: once resetPassword(T, p) has returned success, every later
\* resetPassword(T, p') fails and leaves the users and the sessions
\* unchanged, and every later verifyResetToken(T) returns false.
C10_ResetTokenSingleUse ==
    \A t \in consumed :
        /\ verify_reset_token(t).code = "FALSE"
        /\ \A p \in PasswordInputs :
              /\ reset_password(t, p).code # "OK"
              /\ reset_password(t, p).users = users
              /\ reset_password(t, p).sessions = sessions

\* a consumed token presented again, at a later time at which it has not
\* expired, with a password other than the one it set
C10_Witness ==
    \E t \in consumed :
        /\ reset_tokens[t].used_at < now
        /\ reset_tokens[t].expires_at >= now
        /\ users[reset_tokens[t].user_id].password_hash # hash_password("NewPass123")
        /\ reset_password(t, "NewPass123").code = "INVALID_RESET_TOKEN"

\* C11: each user has at most one reset token that is unused and unexpired,
\* also when request_password_reset calls for the user interleave; and a
\* token issued to a user before another one of the same user fails
\* verify_reset_token and reset_password.
C11_OneUsableResetToken ==
    /\ \A u \in Ids(users) :
          Cardinality({k \in Ids(reset_tokens) :
                         /\ reset_tokens[k].user_id = u
                         /\ ~reset_tokens[k].used
                         /\ reset_tokens[k].expires_at > now}) <= 1
    /\ \A k, k2 \in Ids(reset_tokens) :
          (k < k2 /\ reset_tokens[k].user_id = reset_tokens[k2].user_id)
          => /\ verify_reset_token(k).code = "FALSE"
             /\ \A pw \in PasswordInputs : reset_password(k, pw).code # "OK"

\* C12: logout_all_sessions(u, X) with a jti X leaves every session of u
\* whose jti differs from X revoked and every other row as it was (the
\* session with jti X and the sessions of other users), so that the active
\* sessions of u afterwards are the session with jti X, if it was active.
C12_LogoutAllExceptCurrent ==
    \A u \in Ids(users), x \in Ids(sessions) :
        LET out == logout_all_sessions(u, x) IN
        /\ Len(out.sessions) = Len(sessions)
        /\ \A i \in Ids(sessions) :
              IF sessions[i].user_id = u /\ sessions[i].access_token_jti # x
              THEN out.sessions[i].is_revoked
              ELSE out.sessions[i] = sessions[i]
        /\ {i \in Ids(sessions) : out.sessions[i].user_id = u /\ ~out.sessions[i].is_revoked}
              = {i \in Ids(sessions) : /\ sessions[i].user_id = u
                                        /\ sessions[i].access_token_jti = x
                                        /\ ~sessions[i].is_revoked}

\* logout-all has revoked a session of a user and spared the session whose
\* jti it was given, and another user's session is active
C12_Witness ==
    \E i, k, o \in Ids(sessions) :
        /\ sessions[i].revoked_reason = "logout_all"
        /\ sessions[k].user_id = sessions[i].user_id
        /\ ~sessions[k].is_revoked
        /\ sessions[k].last_used_at <= sessions[i].revoked_at
        /\ sessions[o].user_id # sessions[i].user_id
        /\ ~sessions[o].is_revoked

C14_LogoutTakesEffect ==
    \A i \in Ids(sessions) :
        sessions[i].revoked_reason = "logout"
        => /\ validate_access_token(issued[i].access_token).code # "OK"
           /\ (decode_access_token(issued[i].access_token) = "OK"
                 => validate_access_token(issued[i].access_token).code = "TOKEN_REVOKED")

\* logout has revoked a session whose access token still decodes, beside
\* one whose access token has expired since
C14_Witness ==
    \E i, j \in Ids(sessions) :
        /\ sessions[i].revoked_reason = "logout"
        /\ decode_access_token(issued[i].access_token) = "OK"
        /\ validate_access_token(issued[i].access_token).code = "TOKEN_REVOKED"
        /\ sessions[j].revoked_reason = "logout"
        /\ validate_access_token(issued[j].access_token).code = "TOKEN_EXPIRED"

\* C15: the guard of the protected endpoints rejects a request whose access
\* token belongs to a revoked session (revoked by logout, logout-all,
\* rotation or password reset), so the request reaches no protected handler.
C15_GuardRejectsRevoked ==
    \A i \in Ids(sessions) :
        sessions[i].is_revoked
        => /\ require_auth(issued[i].access_token) # "OK"
           /\ current_user_endpoint(issued[i].access_token).code = "401"

\* C16: a login with a wrong password for an active, unlocked user returns
\* the same result (success flag, error code, message, tokens) as the same
\* login for an email that belongs to no user: INVALID_CREDENTIALS with one
\* message.
C16_NoUserEnumeration ==
    \A u \in Ids(users) : \A p \in WrongFor(u) : \A i \in LoginInputs :
        (/\ users[u].is_active /\ ~LockPending(u)
         /\ \A v \in Ids(users) : users[v].email # lower(i[1]))
        => /\ login(users[u].email, p).code = "INVALID_CREDENTIALS"
           /\ login(users[u].email, p).code = login(i[1], p).code
           /\ login(users[u].email, p).error = login(i[1], p).error
           /\ login(users[u].email, p).n = login(i[1], p).n

\* the account is one failure away from the lock, and an email without a
\* user is at hand
C16_Witness ==
    /\ users[1].failed_login_attempts = LOCK_THRESHOLD - 1
    /\ ~LockPending(1)
    /\ \A v \in Ids(users) : users[v].email # "nobody"
    /\ login("nobody", "wrong").code = "INVALID_CREDENTIALS"
    /\ login("a@x.com", "wrong").users[1].failed_login_attempts = LOCK_THRESHOLD

\* C17: no two non-revoked sessions hold the same refresh-token hash, so a
\* refresh token matches at most one non-revoked session.
C17_UniqueActiveRefreshHash ==
    /\ \A i, j \in Ids(sessions) :
          (i # j /\ ~sessions[i].is_revoked /\ ~sessions[j].is_revoked)
          => sessions[i].refresh_token_hash # sessions[j].refresh_token_hash
    /\ \A r \in RefreshInputs :
          Cardinality({i \in Ids(sessions) :
                         /\ sessions[i].refresh_token_hash = hash_refresh_token(r)
                         /\ ~sessions[i].is_revoked}) <= 1

\* a user holds two non-revoked sessions, one of them created by rotation
C17_Witness ==
    \E i, j, k \in Ids(sessions) :
        /\ i # j
        /\ sessions[i].user_id = sessions[j].user_id
        /\ ~sessions[i].is_revoked /\ ~sessions[j].is_revoked
        /\ sessions[k].user_id = sessions[i].user_id
        /\ sessions[k].revoked_reason = "rotated"

\* the non-revoked sessions of user u among the rows `table`
ActiveOf(table, u) ==
    {i \in Ids(table) : table[i].user_id = u /\ ~table[i].is_revoked}

\* C18: a successful refresh(R) revokes the session R belongs to with reason
\* "rotated" and adds exactly one session: not revoked, of the same user,
\* with a refresh-token hash and a jti no session had; every other row is
\* unchanged and the user has as many non-revoked sessions as before.
C18_RotationReplacesSession ==
    \A r \in Ids(issued) :
        LET out == refresh_tokens(r)
            new == out.sessions[Len(sessions) + 1]
        IN
        out.code = "OK"
        => /\ out.sessions[r].is_revoked
           /\ out.sessions[r].revoked_reason = "rotated"
           /\ Len(out.sessions) = Len(sessions) + 1
           /\ \A i \in Ids(sessions) \ {r} : out.sessions[i] = sessions[i]
           /\ ~new.is_revoked
           /\ new.user_id = sessions[r].user_id
           /\ \A i \in Ids(sessions) :
                 /\ new.refresh_token_hash # sessions[i].refresh_token_hash
                 /\ new.access_token_jti # sessions[i].access_token_jti
           /\ Cardinality(ActiveOf(out.sessions, sessions[r].user_id))
                 = Cardinality(ActiveOf(sessions, sessions[r].user_id))

\* a rotation has replaced a session, at a later time than the session was
\* created, while the other user's session is as it was
C18_Witness ==
    \E i, j, o \in Ids(sessions) :
        /\ sessions[i].revoked_reason = "rotated"
        /\ sessions[i].revoked_at > 0
        /\ j > i
        /\ sessions[j].user_id = sessions[i].user_id
        /\ ~sessions[j].is_revoked
        /\ sessions[j].last_used_at = sessions[i].revoked_at
        /\ sessions[o].user_id # sessions[i].user_id
        /\ ~sessions[o].is_revoked

\* C19: refresh(R) for a non-revoked session whose expiry is in the past
\* returns REFRESH_TOKEN_EXPIRED, marks that session revoked with reason
\* "expired" and creates no session and no token pair; every refresh(R)
\* after it returns INVALID_REFRESH_TOKEN.
C19_ExpiredRefreshRevokes ==
    /\ \A r \in Ids(issued) :
          (~sessions[r].is_revoked /\ sessions[r].expires_at < now)
          => /\ refresh_tokens(r).code = "REFRESH_TOKEN_EXPIRED"
             /\ refresh_tokens(r).sessions[r].is_revoked
             /\ refresh_tokens(r).sessions[r].revoked_reason = "expired"
             /\ Len(refresh_tokens(r).sessions) = Len(sessions)
             /\ \A i \in Ids(sessions) \ {r} : refresh_tokens(r).sessions[i] = sessions[i]
             /\ refresh_tokens(r).issued = issued
    /\ \A r \in Ids(issued) :
          sessions[r].revoked_reason = "expired"
          => /\ refresh_tokens(r).code = "INVALID_REFRESH_TOKEN"
             /\ refresh_tokens(r).sessions = sessions

\* a refresh has found its session expired and revoked it, and another
\* session of the user is still active
C19_Witness ==
    \E i, j \in Ids(sessions) :
        /\ sessions[i].revoked_reason = "expired"
        /\ sessions[i].is_revoked
        /\ sessions[i].expires_at < now
        /\ ~sessions[j].is_revoked
        /\ refresh_tokens(i).code = "INVALID_REFRESH_TOKEN"

Inactive(u) == ~tenants[users[u].tenant_id].is_active

\* C20 as stated: while a user's tenant is inactive, login with the correct
\* password returns TENANT_INACTIVE, refresh with a valid (unrevoked,
\* unexpired) token returns TENANT_INACTIVE, request_password_reset returns
\* no token, and none of the calls creates a session or a reset token.
C20_InactiveTenantReturnsTenantInactive ==
    \A u \in Ids(users) :
        Inactive(u)
        => /\ login(users[u].email, users[u].password_hash.bcrypt).code = "TENANT_INACTIVE"
           /\ \A pw \in PasswordInputs :
                 /\ login(users[u].email, pw).sessions = sessions
                 /\ login(users[u].email, pw).issued = issued
                 /\ login(users[u].email, pw).reset_tokens = reset_tokens
           /\ \A r \in Ids(issued) :
                 sessions[r].user_id = u
                 => /\ (~sessions[r].is_revoked /\ sessions[r].expires_at >= now)
                       => refresh_tokens(r).code = "TENANT_INACTIVE"
                    /\ Len(refresh_tokens(r).sessions) = Len(sessions)
                    /\ refresh_tokens(r).issued = issued
                    /\ refresh_tokens(r).reset_tokens = reset_tokens
           /\ request_password_reset(users[u].email).n = 0
           /\ request_password_reset(users[u].email).reset_tokens = reset_tokens
           /\ request_password_reset(users[u].email).sessions = sessions

\* C20, amended: the same, where the login that returns TENANT_INACTIVE is
\* the login with the correct password to an account that is not locked; a
\* locked account is answered ACCOUNT_LOCKED before the password and the
\* tenant are looked at, and issues nothing either.
C20_InactiveTenantIssuesNothing ==
    \A u \in Ids(users) :
        Inactive(u)
        => /\ login(users[u].email, users[u].password_hash.bcrypt).code =
                 (IF IsLocked(users[u]) THEN "ACCOUNT_LOCKED" ELSE "TENANT_INACTIVE")
           /\ \A pw \in PasswordInputs :
                 /\ login(users[u].email, pw).code # "OK"
                 /\ login(users[u].email, pw).n = 0
                 /\ login(users[u].email, pw).sessions = sessions
                 /\ login(users[u].email, pw).issued = issued
                 /\ login(users[u].email, pw).reset_tokens = reset_tokens
           /\ \A r \in Ids(issued) :
                 sessions[r].user_id = u
                 => /\ (~sessions[r].is_revoked /\ sessions[r].expires_at >= now)
                       => /\ refresh_tokens(r).code = "TENANT_INACTIVE"
                          /\ refresh_tokens(r).sessions = sessions
                    /\ refresh_tokens(r).code # "OK"
                    /\ refresh_tokens(r).n = 0
                    /\ Len(refresh_tokens(r).sessions) = Len(sessions)
                    /\ refresh_tokens(r).issued = issued
                    /\ refresh_tokens(r).reset_tokens = reset_tokens
           /\ request_password_reset(users[u].email).n = 0
           /\ request_password_reset(users[u].email).reset_tokens = reset_tokens
           /\ request_password_reset(users[u].email).sessions = sessions
           /\ request_password_reset(users[u].email).issued = issued

\* an inactive tenant whose user is not locked, holds a valid refresh token
\* and an unused reset token from before the deactivation
C20_Witness ==
    \E u \in Ids(users), r \in Ids(issued), k \in Ids(reset_tokens) :
        /\ Inactive(u)
        /\ ~IsLocked(users[u])
        /\ sessions[r].user_id = u
        /\ ~sessions[r].is_revoked
        /\ sessions[r].expires_at >= now
        /\ reset_tokens[k].user_id = u
        /\ ~reset_tokens[k].used
        /\ login(users[u].email, users[u].password_hash.bcrypt).code = "TENANT_INACTIVE"
        /\ refresh_tokens(r).code = "TENANT_INACTIVE"


\* no active user has the address `email`, compared ignoring case
NoActiveUser(email) ==
    ~\E u \in Ids(users) : users[u].is_active /\ lower(users[u].email) = lower(email)

ResetDone(t, pw) ==
    /\ reset_password(t, pw).code = "OK"
    /\ Write(reset_password(t, pw))
    /\ now' = now

\* C22: after request_password_reset returned token T for an active user
\* and reset_password(T, new) succeeded, a login with the old password
\* returns INVALID_CREDENTIALS and a following login with the new password
\* succeeds.  The logins are those made in the state the reset leaves: the
\* first on the committed row, the second on the row the first leaves.
C22_ResetSwitchesPassword ==
    [][\A t \in Ids(reset_tokens), u \in Ids(users), old, pw \in PasswordInputs :
          (/\ reset_tokens[t].user_id = u
           /\ users[u].password_hash = hash_password(old)
           /\ old # pw
           /\ ResetDone(t, pw))
          => /\ login(users[u].email, old)'.code = "INVALID_CREDENTIALS"
             /\ LoginLoaded(u, login(users[u].email, old).users[u], pw)'.code = "OK"
             /\ LoginLoaded(u, login(users[u].email, old).users[u], pw)'.n > 0]_vars

\* the user has reset the password with a requested token, the login with
\* the old password has failed once since, and the new password logs in
C22_Witness ==
    \E t \in consumed :
        LET u == reset_tokens[t].user_id IN
        /\ users[u].password_hash = hash_password("NewPass123")
        /\ users[u].failed_login_attempts = 1
        /\ login(users[u].email, "Abcd1234").code = "INVALID_CREDENTIALS"
        /\ login(users[u].email, "NewPass123").code = "OK"


\* request p returns in this step
Returns(p) == procs[p].pc # "done" /\ procs'[p].pc = "done"

\* C23: signup is atomic.  A step in which a signup returns a failure
\* (validation, EMAIL_EXISTS, or an error after the tenant or the user was
\* flushed) leaves the committed tenants, users, sessions and audit log as
\* they were; the committed rows change only in the step of a signup that
\* returns success, which adds one tenant, its user, one session and one
\* audit entry together; every committed tenant has a user.
C23_SignupAtomic ==
    [][/\ \A p \in DOMAIN procs :
             (Returns(p) /\ procs'[p].code # "OK") => UNCHANGED <<db, issued>>
       /\ \/ UNCHANGED <<db, issued>>
          \/ /\ \E p \in DOMAIN procs : Returns(p) /\ procs'[p].code = "OK"
             /\ Len(tenants') = Len(tenants) + 1
             /\ Len(users') = Len(users) + 1
             /\ users'[Len(users')].tenant_id = Len(tenants')
             /\ Len(sessions') = Len(sessions) + 1
             /\ sessions'[Len(sessions')].user_id = Len(users')
             /\ Len(audit') = Len(audit) + 1
       /\ \A t \in Ids(tenants') : \E u \in Ids(users') : users'[u].tenant_id = t]_vars

\* two signups for the same address have run at once: one has committed its
\* tenant and user, the other has failed after its email check and left
\* nothing
C23_Witness ==
    \E p, q \in DOMAIN procs :
        /\ procs[p].pc = "done" /\ procs[p].code = "OK"
        /\ procs[q].pc = "done" /\ procs[q].code = "SIGNUP_ERROR"
        /\ procs[p].arg[1] = procs[q].arg[1]
        /\ Len(tenants) = 2
        /\ Len(users) = 2
        /\ Len(sessions) = 2
        /\ Len(audit) = 2


\* C24: change_password with logout_other_sessions = TRUE is atomic: the new
\* password hash, the revocations and the user.password_changed audit entry
\* are committed all together or not at all, also when the nested
\* logout-all step or the audit step raises; and whenever the call returns
\* success the stored hash is the hash of the new password.
C24_ChangePasswordAtomic ==
    \A u \in Ids(users), i \in ChgInputs, nested_raises, audit_raises \in BOOLEAN :
        LET out == change_password_raising(u, i[1], i[2], TRUE, nested_raises, audit_raises)
            all == /\ out.users[u].password_hash = hash_password(i[2])
                   /\ out.sessions = LogoutAllApplied(u, NULL)
                   /\ out.audit = log_action(audit, "user.password_changed", u)
            none == /\ out.users = users
                    /\ out.sessions = sessions
                    /\ out.audit = audit
        IN
        /\ all \/ none
        /\ out.code = "OK" => out.users[u].password_hash = hash_password(i[2])


\* C25: a successful change of password with logout_other_sessions = TRUE
\* revokes every session of the user other than the session of the caller's
\* access token, which stays active; with logout_other_sessions = FALSE it
\* revokes no session.
C25_ChangeKeepsCallerSession ==
    \A k \in Ids(issued), i \in ChgInputs :
        LET t == issued[k].access_token
            kept == change_password_endpoint(t, i[1], i[2], FALSE)
            out == change_password_endpoint(t, i[1], i[2], TRUE)
        IN
        /\ kept.code = "OK" => kept.sessions = sessions
        /\ (out.code = "OK" /\ ~sessions[k].is_revoked)
           => /\ ~out.sessions[k].is_revoked
              /\ \A j \in Ids(sessions) \ {k} :
                    sessions[j].user_id = t.sub => out.sessions[j].is_revoked


\* C26: no two user rows have emails that are equal ignoring case, also
\* after two signups with the same email whose steps interleave; and a
\* signup whose email is that of a committed user returns EMAIL_EXISTS and
\* creates nothing.
C26_UniqueEmails ==
    /\ \A u, v \in Ids(users) :
          u # v => lower(users[u].email) # lower(users[v].email)
    /\ \A i \in SignupInputs \cup SignupRaceInputs :
          (/\ validate_email(lower(i[1]))
           /\ validate_password_strength(i[2]) = {}
           /\ \E u \in Ids(users) : lower(users[u].email) = lower(i[1]))
          => /\ signup(i[1], i[2], i[3]).code = "EMAIL_EXISTS"
             /\ signup(i[1], i[2], i[3]).tenants = tenants
             /\ signup(i[1], i[2], i[3]).users = users
             /\ signup(i[1], i[2], i[3]).sessions = sessions
             /\ signup(i[1], i[2], i[3]).audit = audit

\* two signups for b@x.com passed the email check before either committed;
\* both have returned and one user row has the address, which a further
\* signup finds taken
C26_Witness ==
    \E p, q \in DOMAIN procs :
        /\ p # q
        /\ procs[p].pc = "done" /\ procs[q].pc = "done"
        /\ procs[p].arg[1] = "b@x.com" /\ procs[p].code = "OK"
        /\ procs[q].arg[1] = "b@x.com" /\ procs[q].code = "SIGNUP_ERROR"
        /\ Cardinality({u \in Ids(users) : users[u].email = "b@x.com"}) = 1
        /\ signup("b@x.com", "Abcd1234", "Acme 1").code = "EMAIL_EXISTS"
        /\ signup("A@X.com", "Abcd1234", "Acme 1").code = "EMAIL_EXISTS"

\* C27: no two tenants have the same slug, also after several signups with
\* the same organization name and after signups whose slug queries and
\* inserts interleave.
C27_UniqueSlugs ==
    \A t, t2 \in Ids(tenants) : t # t2 => tenants[t].slug # tenants[t2].slug

\* two signups with the organization name of the first tenant and
\* different addresses generated the same slug before either committed: one
\* has committed, under a slug other than the first tenant's, the other
\* has failed
C27_Witness ==
    /\ \E t, t2 \in Ids(tenants) :
          /\ t # t2
          /\ tenants[t].name = tenants[t2].name
          /\ tenants[t].slug # tenants[t2].slug
    /\ \E p, q \in DOMAIN procs :
          /\ p # q
          /\ procs[p].pc = "done" /\ procs[q].pc = "done"
          /\ procs[p].arg[3] = procs[q].arg[3]
          /\ procs[p].arg[1] # procs[q].arg[1]
          /\ procs[p].code = "OK"
          /\ procs[q].code = "SIGNUP_ERROR"


RevocationFields == {"is_revoked", "revoked_at", "revoked_reason"}

\* the row `new` is the row `old` except for the columns `fields`
KeptBut(old, new, fields) == \A f \in (DOMAIN old) \ fields : new[f] = old[f]

\* C28 as stated: no operation removes a session, and no operation changes
\* a field of an existing session other than the revoked flag, the
\* revocation reason and the revoked-at timestamp.
C28_OnlyRevocationFieldsChange ==
    [][/\ Len(sessions') >= Len(sessions)
       /\ \A i \in Ids(sessions) : KeptBut(sessions[i], sessions'[i], RevocationFields)]_vars

\* C28, amended: no operation removes a session, and no operation changes a
\* field of an existing session other than the revoked flag, the revocation
\* reason, the revoked-at timestamp and the last-used timestamp; the
\* last-used timestamp changes only in the refresh that revokes the session
\* with reason "rotated".
C28_OnlyRevocationAndLastUsedChange ==
    [][/\ Len(sessions') >= Len(sessions)
       /\ \A i \in Ids(sessions) :
             /\ KeptBut(sessions[i], sessions'[i], RevocationFields \cup {"last_used_at"})
             /\ sessions'[i].last_used_at # sessions[i].last_used_at
                => /\ ~sessions[i].is_revoked
                   /\ sessions'[i].is_revoked
                   /\ sessions'[i].revoked_reason = "rotated"
                   /\ sessions'[i].last_used_at = now]_vars

\* a session rotated at a time later than its creation: its last-used
\* timestamp is no longer the time it was created
C28_Witness ==
    \E i \in Ids(sessions) :
        /\ sessions[i].revoked_reason = "rotated"
        /\ sessions[i].last_used_at > sessions[i].expires_at - REFRESH_TICKS
        /\ sessions[i].last_used_at = sessions[i].revoked_at


C30_ResetAgreesWithVerify ==
    \A t \in ResetTokenInputs, p \in PasswordInputs :
        (/\ validate_password_strength(p) = {}
         /\ t \in Ids(reset_tokens) => users[reset_tokens[t].user_id].is_active)
        => (reset_password(t, p).code = "OK" <=> verify_reset_token(t).code = "TRUE")


\* a revoked user_sessions row carries the user id and the jti of `token`
SessionRevoked(token) ==
    \E i \in Ids(sessions) :
        /\ sessions[i].user_id = token.sub
        /\ sessions[i].access_token_jti = token.jti
        /\ sessions[i].is_revoked

\* C31: validate_access_token returns a payload exactly for a token whose
\* signature is valid, whose expiry is in the future, whose type marker is
\* "access" and whose session is not revoked; every other token gets an
\* error and no payload: the invalid kind for a bad signature, the expired
\* kind for a signed token past its expiry, the invalid-type kind for a
\* signed, unexpired token of another type, and the revoked kind for a
\* token that decodes and whose session is revoked.
C31_ValidateKinds ==
    \A t \in AccessInputs \cup {WrongTypeToken} :
        LET code == validate_access_token(t).code IN
        /\ code = "OK" <=> (t.signed /\ t.exp > now /\ t.type = "access" /\ ~SessionRevoked(t))
        /\ ~t.signed => code = "INVALID_TOKEN"
        /\ t.signed /\ t.exp <= now => code = "TOKEN_EXPIRED"
        /\ t.signed /\ t.exp > now /\ t.type # "access" => code = "INVALID_TOKEN_TYPE"
        /\ t.signed /\ t.exp > now /\ t.type = "access" /\ SessionRevoked(t)
            => code = "TOKEN_REVOKED"
        /\ validate_access_token(t).sessions = sessions

\* one issued token is accepted while another is reported revoked, the
\* forged one invalid and the refresh-typed one of the wrong type
C31_Witness ==
    \E i, j \in Ids(issued) :
        /\ validate_access_token(issued[i].access_token).code = "OK"
        /\ validate_access_token(issued[j].access_token).code = "TOKEN_REVOKED"
        /\ validate_access_token(ForgedToken).code = "INVALID_TOKEN"
        /\ validate_access_token(WrongTypeToken).code = "INVALID_TOKEN_TYPE"



\* C32: a change_password call that fails because the current password is
\* wrong or the new password violates the policy leaves the users table
\* (password hash, failed_login_attempts, locked_until), every session, the
\* reset tokens and the audit log as they were.
C32_FailedChangeWritesNothing ==
    \A u \in Ids(users), i \in ChgInputs, b, nested_raises, audit_raises \in BOOLEAN :
        LET out == change_password_raising(u, i[1], i[2], b, nested_raises, audit_raises) IN
        out.code \in {"WRONG_PASSWORD", "WEAK_PASSWORD"}
        => /\ out.users = users
           /\ out.sessions = sessions
           /\ out.audit = audit
           /\ out.reset_tokens = reset_tokens
           /\ out.tenants = tenants

\* after a password change and a failed login, one call fails on the
\* current password and another on the policy
C32_Witness ==
    /\ users[1].password_hash = hash_password("NewPass123")
    /\ users[1].failed_login_attempts > 0
    /\ \E i \in Ids(sessions) : ~sessions[i].is_revoked
    /\ change_password(1, "Abcd1234", "NewPass123", TRUE).code = "WRONG_PASSWORD"
    /\ change_password(1, "NewPass123", "wrong", TRUE).code = "WEAK_PASSWORD"



\* the users of tenant t
UsersOf(t) == {u \in Ids(users) : users[u].tenant_id = t}

\* the audit entries of successful signups
SignupEntries == {k \in Ids(audit) : audit[k].action = "user.signup"}

\* C33: every committed tenant was created by exactly one successful signup
\* together with exactly one user of that tenant, and that user has role
\* admin; there is no tenant without an admin user and no user without a
\* tenant.
C33_TenantBootstrappedWithAdmin ==
    /\ \A t \in Ids(tenants) :
          /\ Cardinality(UsersOf(t)) = 1
          /\ \A u \in UsersOf(t) : users[u].role = "admin"
          /\ Cardinality({k \in SignupEntries : users[audit[k].user_id].tenant_id = t}) = 1
    /\ \A u \in Ids(users) : users[u].tenant_id \in Ids(tenants)
    /\ Cardinality(SignupEntries) = Len(tenants)

\* two signups that ran at once have both committed: three tenants, each
\* with the one user its signup created
C33_Witness ==
    /\ Len(tenants) = 3
    /\ \A t \in Ids(tenants) : UsersOf(t) = {t}
    /\ \A p \in DOMAIN procs : procs[p].pc = "done" /\ procs[p].code = "OK"



\* the lock of user u has run out and no login has been counted since
LockRanOut(u) ==
    /\ users[u].locked_until # NULL
    /\ users[u].locked_until <= now
    /\ users[u].failed_login_attempts = LOCK_THRESHOLD

\* C34: the threshold is counted afresh after a lock: once the time has
\* reached locked_until with no successful login in between, a single
\* further failed login does not lock the account again.
C34_ThresholdCountedAfresh ==
    \A u \in Ids(users) :
        LockRanOut(u) => ~IsLocked(login(users[u].email, "wrong").users[u])



\* the password that verifies against the stored hash of user u
CorrectPassword(u) == users[u].password_hash.bcrypt

\* C35: a locked account becomes usable again: for an active user of an
\* active tenant whose locked_until is set, once the time is at or past
\* locked_until a login with the correct password returns success and
\* clears failed_login_attempts and locked_until; and as time passes every
\* lock reaches that point, whatever logins are attempted meanwhile.
C35_LockedBecomesUsable ==
    /\ [](\A u \in Ids(users) :
            (/\ users[u].is_active
             /\ tenants[users[u].tenant_id].is_active
             /\ users[u].locked_until # NULL
             /\ users[u].locked_until <= now)
            => LET out == login(users[u].email, CorrectPassword(u)) IN
               /\ out.code = "OK"
               /\ out.users[u].failed_login_attempts = 0
               /\ out.users[u].locked_until = NULL)
    /\ (IsLocked(users[1]) /\ users[1].locked_until <= LockNow)
          ~> (~IsLocked(users[1]) /\ login("a@x.com", CorrectPassword(1)).code = "OK")

\* the account was locked twice, the second lock has run out and the
\* correct password logs in
C35_Witness ==
    /\ users[1].failed_login_attempts > LOCK_THRESHOLD
    /\ users[1].locked_until # NULL
    /\ users[1].locked_until <= now
    /\ login("a@x.com", CorrectPassword(1)).code = "OK"



\* the user_sessions rows that carry the user id and the jti of `token`
SessionsOf(token) ==
    {i \in Ids(sessions) : /\ sessions[i].user_id = token.sub
                           /\ sessions[i].access_token_jti = token.jti}

\* C36: every access token that signup, login or refresh has returned has a
\* committed session row with its user id and jti, so validate_access_token
\* returns a payload for a returned token only when a session of that token
\* exists that is not revoked: no returned token is accepted because the
\* session lookup finds nothing.
C36_ReturnedTokenHasSession ==
    \A k \in Ids(issued) :
        /\ SessionsOf(issued[k].access_token) # {}
        /\ validate_access_token(issued[k].access_token).code = "OK"
            => \E i \in SessionsOf(issued[k].access_token) : ~sessions[i].is_revoked

\* tokens returned by a signup, a login and a refresh, one of them accepted
\* and one of them revoked
C36_Witness ==
    \E a, b, c \in Ids(issued) :
        /\ audit[1].action = "user.signup" /\ a = 1
        /\ \E j \in Ids(audit) : audit[j].action = "user.login"
        /\ sessions[b].revoked_reason = "rotated"
        /\ validate_access_token(issued[c].access_token).code = "OK"
        /\ a # b /\ b # c



\* C37: a successful reset_password clears the lockout: it leaves
\* failed_login_attempts = 0 and locked_until = null, and a login with the
\* new password made in the state the reset leaves returns success, also
\* when the account was locked before the reset.
C37_ResetClearsLockout ==
    [][\A t \in Ids(reset_tokens), u \in Ids(users), pw \in PasswordInputs :
          (reset_tokens[t].user_id = u /\ ResetDone(t, pw))
          => /\ users'[u].failed_login_attempts = 0
             /\ users'[u].locked_until = NULL
             /\ login(users[u].email, pw)'.code = "OK"]_vars

\* the account was locked, and a reset made during the lock has left it
\* unlocked with no login since
C37_Witness ==
    /\ consumed # {}
    /\ audit[Len(audit)].action = "user.password_reset_completed"
    /\ \E j \in Ids(audit) :
          /\ audit[j].action = "user.locked"
          /\ \A k \in Ids(audit) : k > j => audit[k].action # "user.login"
    /\ now < LOCK_TICKS
    /\ users[1].locked_until = NULL
    /\ login("a@x.com", "NewPass123").code = "OK"



\* C38: request_password_reset(e) creates a reset token only for a user
\* whose stored email equals e ignoring case: a request whose argument
\* differs from every stored email, the arguments with the pattern
\* characters of LIKE included, creates no reset token and invalidates none.
C38_RequestMatchesEmailOnly ==
    \A e \in ResetEmailInputs :
        (\A u \in Ids(users) : lower(users[u].email) # lower(e))
        => /\ request_password_reset(e).n = 0
           /\ request_password_reset(e).reset_tokens = reset_tokens



\* C39: of two reset_password calls that run concurrently with the same
\* usable token and different new passwords, at most one returns success,
\* and the stored password hash is that of the successful call.
C39_OneResetPerToken ==
    \A p, q \in DOMAIN procs :
        (/\ p # q
         /\ procs[p].pc = "done" /\ procs[q].pc = "done"
         /\ procs[p].arg[1] = procs[q].arg[1]
         /\ procs[p].arg[2] # procs[q].arg[2]
         /\ procs[p].code = "OK")
        => /\ procs[q].code # "OK"
           /\ users[1].password_hash = hash_password(procs[p].arg[2])


====
